---------------------------- MODULE Spec2Model ----------------------------
(***************************************************************************)
(* Model of the HDL code managers' instantiation merge engines:            *)
(*   - HdlModuleInterface.update_instantiation (hdl_module_interface.py)   *)
(*   - XilinxDebugCoreManager.process_module                               *)
(*     (hdl_xilinx_debug_core_manager.py)                                  *)
(*                                                                         *)
(* A file is a sequence of lines, a line is a sequence of tokens, a token  *)
(* is a string.  Every token is of one lexical class: a run of whitespace, *)
(* a single punctuation character, a piece of a run of word characters     *)
(* (\w+; an identifier is cut at its underscores where a pattern of the    *)
(* source tells [a-zA-Z0-9] from \w), or an opaque literal (a marker       *)
(* comment).  The regular expressions of the source are matched token by   *)
(* token, as re.match does character by character: anchored at the start   *)
(* of the line, not at its end.  No word of the line alphabets properly    *)
(* extends a literal word of a pattern, so that matching a literal against *)
(* a whole token is matching it against the characters.                    *)
(***************************************************************************)
EXTENDS Integers, Sequences, FiniteSets, TLC

VARIABLES
    file,       \* content of the target file on disk (sequence of lines)
    orig,       \* content of the target file before the first run
    prev,       \* content of the target file before the latest run
    runs,       \* number of runs of the operation so far
    raised,     \* the latest run raised an exception
    step,       \* the latest step: "init", "run", "rerun" (a run that
                \* directly follows a run), "edit", or the parser called
                \* on a declaration ("ila", "vio")
    ports,      \* HdlModuleInterface.ports (names, in declaration order)
    no_create,  \* argument no_create of update_instantiation
    registry,   \* content of the signal registry (JSON): module -> signals
    xips,       \* content of xips_debug_cores_<module>.tcl (sequence of lines)
    ret         \* value returned by the latest call of a parser (from_sv,
                \* from_str): <<>> for None, else <<value>>

vars == <<file, orig, prev, runs, raised, step, ports, no_create,
          registry, xips, ret>>

----------------------------------------------------------------------------
(* Bounds *)

MaxLines == 4     \* lines of an input file
MaxRuns  == 2     \* consecutive runs on one file
MaxDeclLines == 5 \* lines of a module declaration given to from_sv

----------------------------------------------------------------------------
(* Lexical classes *)

EOL == ""         \* read past the end of a line

Pad13 == "             "
Pad14 == "              "
Pad20 == "                    "

WsTokens == {" ", "  ", "    ", Pad13, Pad14, Pad20, "\n"}

Punct == {"(", ")", ";", ".", ",", "#", "[", "]", ":", "~", "+", "-", "*",
          "/", "=", "{", "}"}

S_GENERATED_CODE_START == "    /* --- GENERATED CODE --- */"
S_GENERATED_CODE_END   == "    /* ---------------------- */"

Opaque == {S_GENERATED_CODE_START, S_GENERATED_CODE_END, "//"}

IsWs(t)   == t \in WsTokens
IsWord(t) == t \notin (WsTokens \cup Punct \cup Opaque \cup {EOL})

Range(s) == {s[i] : i \in 1..Len(s)}

At(l, i) == IF i >= 1 /\ i <= Len(l) THEN l[i] ELSE EOL

\* \s* from position i: the first position not holding whitespace
RECURSIVE SkipWs(_, _)
SkipWs(l, i) == IF IsWs(At(l, i)) THEN SkipWs(l, i + 1) ELSE i

\* \w* from position i
RECURSIVE SkipWord(_, _)
SkipWord(l, i) == IF IsWord(At(l, i)) THEN SkipWord(l, i + 1) ELSE i

----------------------------------------------------------------------------
(* HdlModuleInterface: regular expressions *)

name == "foo"                       \* HdlModuleInterface.name
INST_PREFIX == "inst_"

\* __re_module_inst_sv_end_module.match(line)
re_module_inst_sv_end_module(line) ==
    At(line, SkipWs(line, 1)) = "endmodule"

\* __re_module_inst_sv_end.match(line)
re_module_inst_sv_end(line) ==
    LET i == SkipWs(line, 1)
    IN  At(line, i) = ")" /\ At(line, SkipWs(line, i + 1)) = ";"

\* [\w+\+\-\*\/\:]+ from position i (inside an index bracket)
RECURSIVE SkipIndexChars(_, _)
SkipIndexChars(l, i) ==
    IF IsWord(At(l, i)) \/ At(l, i) \in {"+", "-", "*", "/", ":"}
    THEN SkipIndexChars(l, i + 1) ELSE i

\* (\[[\w+\+\-\*\/\:]+\])* from position i
RECURSIVE SkipIndexBrackets(_, _)
SkipIndexBrackets(l, i) ==
    LET j == SkipIndexChars(l, i + 1)
    IN  IF At(l, i) = "[" /\ j > i + 1 /\ At(l, j) = "]"
        THEN SkipIndexBrackets(l, j + 1) ELSE i

\* __s_module_inst_sv_connected_signal from position i: the position after
\* the match, 0 if there is none
connected_signal_end(l, i) ==
    IF IsWord(At(l, i)) THEN SkipIndexBrackets(l, SkipWord(l, i)) ELSE 0

\* (connected_signal)* from position i: the position after the last
\* repetition and the text of the last repetition (group 2, <<>> for None)
RECURSIVE connected_signal_star(_, _, _)
connected_signal_star(l, i, last) ==
    LET e == connected_signal_end(l, i)
    IN  IF e = 0 THEN [pos |-> i, grp |-> last]
        ELSE connected_signal_star(l, e, SubSeq(l, i, e - 1))

\* __re_module_inst_sv_port_conn.match(line): mo, group(1), group(2)
re_module_inst_sv_port_conn(line) ==
    LET i == SkipWs(line, 1)
        j == SkipWs(line, i + 2)
        s == connected_signal_star(line, SkipWs(line, j + 1), <<>>)
    IN  IF /\ At(line, i) = "."
           /\ IsWord(At(line, i + 1))
           /\ At(line, j) = "("
           /\ At(line, SkipWs(line, s.pos)) = ")"
        THEN [mo |-> TRUE, port |-> At(line, i + 1), conn |-> s.grp]
        ELSE [mo |-> FALSE, port |-> EOL, conn |-> <<>>]

\* HdlModuleInterface.__detect_module_inst_begin
detect_module_inst_begin(line) ==
    LET i == SkipWs(line, 1)
        j == SkipWs(line, i + 1)
        k == SkipWs(line, j + 1)
    IN  IF At(line, i) = name /\ At(line, j) = "#" /\ At(line, j + 1) = "("
        THEN "param"
        ELSE IF /\ At(line, i) = name
                /\ At(line, j) = INST_PREFIX \o name
                /\ At(line, k) = "("
        THEN "no_param"
        ELSE IF /\ At(line, i) = ")"
                /\ At(line, j) = INST_PREFIX \o name
                /\ At(line, k) = "("
        THEN "no_param"
        ELSE "None"

----------------------------------------------------------------------------
(* d_port_connections: a Python dict, i.e. keys in insertion order; it is  *)
(* a sequence of [port, conn] records with pairwise distinct ports.        *)

HasKey(d, p) == \E i \in 1..Len(d) : d[i].port = p

Lookup(d, p) == d[CHOOSE i \in 1..Len(d) : d[i].port = p].conn

\* dict.fromkeys(names, ""): a repeated name keeps its first position
RECURSIVE dict_fromkeys(_)
dict_fromkeys(names) ==
    IF names = <<>> THEN <<>>
    ELSE LET d == dict_fromkeys(SubSeq(names, 1, Len(names) - 1))
             p == names[Len(names)]
         IN  IF HasKey(d, p) THEN d
             ELSE Append(d, [port |-> p, conn |-> <<>>])

\* d[p] = c: an assignment never raises KeyError, a new key is appended
dict_setitem(d, p, c) ==
    IF HasKey(d, p)
    THEN [i \in 1..Len(d) |->
            IF d[i].port = p THEN [port |-> p, conn |-> c] ELSE d[i]]
    ELSE Append(d, [port |-> p, conn |-> c])

----------------------------------------------------------------------------
(* HdlModuleInterface.instantiate_with_conn (add_newlines = True)          *)

\* f"    .{port} ({conn}),\n"
conn_line(port, conn) ==
    <<"    ", ".", port, " ", "(">> \o conn \o <<")", ",", "\n">>

\* s.replace(',', '')
remove_commas(line) == SelectSeq(line, LAMBDA t : t # ",")

\* the list of lines; called with an empty dict, l_lines_out.pop() raises
\* IndexError (callers test d # <<>> first)
instantiate_with_conn(d) ==
    [i \in 1..Len(d) |->
        IF i = Len(d) THEN remove_commas(conn_line(d[i].port, d[i].conn))
        ELSE conn_line(d[i].port, d[i].conn)]

instantiate_with_conn_raises(d) == d = <<>>

----------------------------------------------------------------------------
(* HdlModuleInterface.update_instantiation                                 *)

\* f"{self.name} {self.INST_PREFIX}{self.name} (\n"
inst_begin_line == <<name, " ", INST_PREFIX \o name, " ", "(", "\n">>
inst_end_line   == <<")", ";", "\n">>
empty_line      == <<"\n">>

\* the local variables before the loop over the lines
scan_init(prts) ==
    [l_lines_out        |-> <<>>,
     d_port_connections |-> dict_fromkeys(prts),
     in_port_list       |-> FALSE,
     in_param_list      |-> FALSE,
     inst_created       |-> FALSE,
     raised             |-> FALSE]

\* branch 'if mo' of the 'endmodule' match
scan_end_module(st, line, nc) ==
    IF ~st.inst_created /\ ~nc
    THEN IF instantiate_with_conn_raises(st.d_port_connections)
         THEN [st EXCEPT !.raised = TRUE]
         ELSE [st EXCEPT !.l_lines_out =
                    st.l_lines_out \o <<inst_begin_line>>
                    \o instantiate_with_conn(st.d_port_connections)
                    \o <<inst_end_line, empty_line, line>>]
    ELSE [st EXCEPT !.l_lines_out = Append(st.l_lines_out, line)]

\* a variant of scan_idle that enters the port list at a parametrized start
\* too
scan_idle_both_flags(st, line) ==
    [st EXCEPT !.l_lines_out   = Append(st.l_lines_out, line),
               !.in_port_list  = detect_module_inst_begin(line)
                                     \in {"no_param", "param"},
               !.in_param_list = detect_module_inst_begin(line) = "param"]

\* branch 'elif not (in_port_list or in_param_list)'
scan_idle(st, line) ==
    [st EXCEPT !.l_lines_out   = Append(st.l_lines_out, line),
               !.in_port_list  = detect_module_inst_begin(line) = "no_param",
               !.in_param_list = detect_module_inst_begin(line) = "param"]

\* a variant of scan_param_list that reads the connections of the lines of
\* the parameter list
scan_param_list_conn(st, line) ==
    LET m == re_module_inst_sv_port_conn(line)
    IN  [st EXCEPT
            !.l_lines_out   = Append(st.l_lines_out, line),
            !.in_param_list = detect_module_inst_begin(line) # "no_param",
            !.in_port_list  = detect_module_inst_begin(line) = "no_param",
            !.d_port_connections =
                IF m.mo /\ m.conn # <<>>
                THEN dict_setitem(st.d_port_connections, m.port, m.conn)
                ELSE st.d_port_connections]

\* branch 'elif in_param_list'
scan_param_list(st, line) ==
    IF detect_module_inst_begin(line) = "no_param"
    THEN [st EXCEPT !.l_lines_out   = Append(st.l_lines_out, line),
                    !.in_param_list = FALSE,
                    !.in_port_list  = TRUE]
    ELSE [st EXCEPT !.l_lines_out   = Append(st.l_lines_out, line)]

\* the end-of-instantiation match of branch 'elif in_port_list'
scan_port_list_end(st, line) ==
    IF re_module_inst_sv_end(line)
    THEN IF instantiate_with_conn_raises(st.d_port_connections)
         THEN [st EXCEPT !.raised = TRUE]
         ELSE [st EXCEPT !.in_port_list = FALSE,
                         !.l_lines_out  =
                             st.l_lines_out
                             \o instantiate_with_conn(st.d_port_connections)
                             \o <<line>>,
                         !.inst_created = TRUE]
    ELSE st

\* the connection match of branch 'elif in_port_list'
scan_port_list_conn(st, line) ==
    LET m == re_module_inst_sv_port_conn(line)
    IN  IF ~st.raised /\ m.mo /\ m.conn # <<>>
        THEN [st EXCEPT !.d_port_connections =
                            dict_setitem(st.d_port_connections, m.port, m.conn)]
        ELSE st

\* one iteration of 'for line in l_lines'
scan_line(st, line, nc) ==
    IF st.raised THEN st
    ELSE IF re_module_inst_sv_end_module(line) THEN scan_end_module(st, line, nc)
    ELSE IF ~(st.in_port_list \/ st.in_param_list) THEN scan_idle(st, line)
    ELSE IF st.in_param_list THEN scan_param_list(st, line)
    ELSE scan_port_list_conn(scan_port_list_end(st, line), line)

\* the loop over the first n lines
RECURSIVE scan_lines(_, _, _, _)
scan_lines(l_lines, n, prts, nc) ==
    IF n = 0 THEN scan_init(prts)
    ELSE scan_line(scan_lines(l_lines, n - 1, prts, nc), l_lines[n], nc)

\* the file after update_instantiation(destination, no_create=nc) and
\* whether the call raised (it then raised before the write)
update_instantiation(l_lines, prts, nc) ==
    LET st == scan_lines(l_lines, Len(l_lines), prts, nc)
    IN  [raised |-> st.raised,
         out    |-> IF st.raised THEN l_lines ELSE st.l_lines_out]

----------------------------------------------------------------------------
(* Target files of update_instantiation: every sequence of at most         *)
(* MaxLines lines of InstLines.                                            *)

L_code       == <<"wire", " ", "w", ";", "\n">>
L_begin      == <<name, " ", INST_PREFIX \o name, " ", "(", "\n">>
L_begin_user == <<name, " ", "u_" \o name, " ", "(", "\n">>
L_param      == <<name, " ", "#", "(", "\n">>
L_param_end  == <<")", " ", INST_PREFIX \o name, " ", "(", "\n">>
L_end        == <<")", ";", "\n">>
L_conn_a     == <<"  ", ".", "a", "(", "sig1", ")", ",", "\n">>
L_conn_a_x   == <<"  ", ".", "a", "(", "~", "en", ")", ",", "\n">>
L_conn_b     == <<"  ", ".", "b", "(", "sig2", ")", "\n">>
L_conn_close == <<"  ", ".", "b", "(", "sig2", ")", ")", ";", "\n">>
L_endmodule  == <<"endmodule", "\n">>

InstLines == {L_code, L_begin, L_begin_user, L_param, L_param_end, L_end,
              L_conn_a, L_conn_a_x, L_conn_b, L_conn_close, L_endmodule}

Interfaces == {<<>>, <<"a">>, <<"a", "c">>}

Files(Lines) == UNION {[1..n -> Lines] : n \in 0..MaxLines}

InitInst ==
    /\ file \in Files(InstLines)
    /\ orig = file
    /\ prev = file
    /\ runs = 0
    /\ raised = FALSE
    /\ step = "init"
    /\ ports \in Interfaces
    /\ no_create \in BOOLEAN
    /\ registry = <<>>
    /\ xips = <<>>
    /\ ret = <<>>

UpdateInstantiation ==
    /\ runs < MaxRuns
    /\ LET r == update_instantiation(file, ports, no_create)
       IN  /\ file' = r.out
           /\ raised' = r.raised
    /\ prev' = file
    /\ runs' = runs + 1
    /\ step' = IF step \in {"run", "rerun"} THEN "rerun" ELSE "run"
    /\ UNCHANGED <<orig, ports, no_create, registry, xips, ret>>

NextInst == UpdateInstantiation

SpecInst == InitInst /\ [][NextInst]_vars

----------------------------------------------------------------------------
(* Debug signals: IlaSignal, VioSignal                                     *)

module_name == "top"    \* parse_module_file_name("top.sv")[0]

\* the words of the alphabets that hold an underscore: \w, not [a-zA-Z0-9]
UnderscoreWords ==
    {"_", "ila_ctrl_", "vio_ctrl_", "xip_ila_ctrl_", "xip_vio_ctrl_",
     "inst_xip_ila_ctrl_", "inst_xip_vio_ctrl_", "trigger_type",
     INST_PREFIX \o name, "u_" \o name}

DigitChar == <<"0", "1", "2", "3", "4", "5", "6", "7", "8", "9">>

IsDigits(t) == \E n \in 1..10 : DigitChar[n] = t
IsAlnum(t)  == IsWord(t) /\ t \notin UnderscoreWords

\* [a-zA-Z0-9]* from position i
RECURSIVE SkipAlnum(_, _)
SkipAlnum(l, i) == IF IsAlnum(At(l, i)) THEN SkipAlnum(l, i + 1) ELSE i

\* a variant of int that reads every bound of a dimension as 0
int_zero(t) == 0

\* int(t) of a digit token
int(t) == (CHOOSE n \in 1..10 : DigitChar[n] = t) - 1

\* f"{n}" of an integer
RECURSIVE str(_)
str(n) ==
    IF n < 0 THEN "-" \o str(0 - n)
    ELSE IF n < 10 THEN DigitChar[n + 1]
    ELSE str(n \div 10) \o DigitChar[(n % 10) + 1]

\* a variant of upper that keeps the case
upper_keep(t) == t

\* s.upper(), token by token
upper(t) ==
    CASE t = "hex" -> "HEX"
      [] t = "bin" -> "BIN"
      [] t = "in"  -> "IN"
      [] t = "out" -> "OUT"
      [] OTHER     -> t

\* ([\d]+) from position i
EndDigits(l, i) == IF IsDigits(At(l, i)) THEN i + 1 ELSE i

\* (in|out) from position i
EndInOut(l, i) == IF At(l, i) \in {"in", "out"} THEN i + 1 ELSE 0

\* The two pattern_sig_sv differ in the literal lit, in group 5
\* ([a-zA-Z0-9]+ after ila_ctrl_, in|out after vio_ctrl_), in the keys k1
\* and k2 of the comment and in the class of the second value ([\d]+ for
\* comparators, [\w]+ for init).  They are matched in three parts.

\* (\[([\d]+):([\d]+)\][\s]+) at position j
sig_dim(line, j) ==
    /\ At(line, j) = "["
    /\ IsDigits(At(line, j + 1))
    /\ At(line, j + 2) = ":"
    /\ IsDigits(At(line, j + 3))
    /\ At(line, j + 4) = "]"
    /\ IsWs(At(line, j + 5))

\* the end of group 5 from position p (not beyond p without a match)
sig_end5(line, lit, p) ==
    IF lit = "ila_ctrl_" THEN SkipAlnum(line, p) ELSE EndInOut(line, p)

\* lit(group 5)_([\w]+)[\s]*; at position k: mo, the groups 5 and 6, the
\* position s of the ';'
sig_name(line, lit, k) ==
    LET e5 == sig_end5(line, lit, k + 1)
        e6 == SkipWord(line, e5 + 1)
    IN  IF /\ At(line, k) = lit
           /\ e5 > k + 1
           /\ At(line, e5) = "_"
           /\ e6 > e5 + 1
           /\ At(line, SkipWs(line, e6)) = ";"
        THEN [mo |-> TRUE, g5 |-> SubSeq(line, k + 1, e5 - 1),
              g6 |-> SubSeq(line, e5 + 1, e6 - 1), s |-> SkipWs(line, e6)]
        ELSE [mo |-> FALSE, g5 |-> <<>>, g6 |-> <<>>, s |-> 0]

\* key=(value) at position n: the value (<<>> without a match), a run of
\* digits if digits, else of word characters
sig_value(line, n, key, digits) ==
    LET e == IF digits THEN EndDigits(line, n + 2) ELSE SkipWord(line, n + 2)
    IN  IF At(line, n) = key /\ At(line, n + 1) = "=" /\ e > n + 2
        THEN SubSeq(line, n + 2, e - 1)
        ELSE <<>>

\* the optional comment after the ';' at position s: the groups 9 and 11
sig_comment(line, lit, s, k1, k2) ==
    LET n  == SkipWs(line, SkipWs(line, s + 1) + 1)
        g9 == sig_value(line, n, k1, FALSE)
        n2 == IF g9 # <<>> THEN SkipWs(line, n + 2 + Len(g9)) ELSE n
    IN  IF At(line, SkipWs(line, s + 1)) = "//"
        THEN [g9  |-> g9,
              g11 |-> sig_value(line, n2, k2, lit = "ila_ctrl_")]
        ELSE [g9 |-> <<>>, g11 |-> <<>>]

\* the match object of pattern_sig_sv: mo, whether group 3 matched, and the
\* groups 3, 4, 5, 6, 9, 11 (<<>> for None); dim is whether the dimension
\* matched at position j, b the match of the name, c of the comment
sig_groups(line, j, dim, b, c) ==
    [mo  |-> TRUE, dim |-> dim,
     g3  |-> IF dim THEN At(line, j + 1) ELSE EOL,
     g4  |-> IF dim THEN At(line, j + 3) ELSE EOL,
     g5  |-> b.g5, g6 |-> b.g6, g9 |-> c.g9, g11 |-> c.g11]

\* the name and the comment of the declaration, the name at position k
sig_tail(line, lit, k1, k2, j, dim, b) ==
    IF b.mo
    THEN sig_groups(line, j, dim, b, sig_comment(line, lit, b.s, k1, k2))
    ELSE [mo  |-> FALSE, dim |-> FALSE, g3 |-> EOL, g4 |-> EOL,
          g5  |-> <<>>, g6 |-> <<>>, g9 |-> <<>>, g11 |-> <<>>]

\* the declaration from position j, after (logic|reg|wire)[\s]+
sig_decl(line, lit, k1, k2, j, dim) ==
    sig_tail(line, lit, k1, k2, j, dim,
             sig_name(line, lit, IF dim THEN SkipWs(line, j + 5) ELSE j))

\* pattern_sig_sv.match(line)
match_sig_sv(line, lit, k1, k2) ==
    LET i == SkipWs(line, 1)
    IN  IF At(line, i) \in {"logic", "reg", "wire"} /\ IsWs(At(line, i + 1))
        THEN sig_decl(line, lit, k1, k2, SkipWs(line, i + 1),
                      sig_dim(line, SkipWs(line, i + 1)))
        ELSE [mo  |-> FALSE, dim |-> FALSE, g3 |-> EOL, g4 |-> EOL,
              g5  |-> <<>>, g6 |-> <<>>, g9 |-> <<>>, g11 |-> <<>>]

\* IlaSignal.pattern_sig_sv.match(line)
IlaSignal_pattern_sig_sv(line) ==
    match_sig_sv(line, "ila_ctrl_", "trigger_type", "comparators")

\* IlaSignal.pattern_sig_clk_sv.match(line)
IlaSignal_pattern_sig_clk_sv(line) ==
    LET i == SkipWs(line, 1)
        j == SkipWs(line, i + 1)
        e == SkipAlnum(line, j + 1)
    IN  /\ At(line, i) \in {"logic", "reg", "wire"}
        /\ IsWs(At(line, i + 1))
        /\ At(line, j) = "ila_ctrl_"
        /\ e > j + 1
        /\ At(line, e) = "_" /\ At(line, e + 1) = "clk"
        /\ At(line, SkipWs(line, e + 2)) = ";"

\* VioSignal.pattern_sig_sv.match(line)
VioSignal_pattern_sig_sv(line) ==
    match_sig_sv(line, "vio_ctrl_", "radix", "init")

\* IlaSignal.trigger_type_xilinx_id
trigger_type_xilinx_id(sig) ==
    IF sig.trigger_type = <<"both">> THEN 0
    ELSE IF sig.trigger_type = <<"trigger">> THEN 1
    ELSE 2

\* IlaSignal.from_str, from the match object on: <<>> for None, else
\* <<signal>>.  A name is the sequence of its tokens; trigger_type <<>> is
\* None; num_comparators is the text of the number (the default is the
\* integer 1, never printed).
IlaSignal_of(mo) ==
    IF mo.mo
    THEN << [name            |-> mo.g6,
             width           |-> IF mo.dim
                                 THEN int(mo.g3) - int(mo.g4) + 1
                                 ELSE 1,
             ila_name        |-> mo.g5,
             trigger_type    |-> mo.g9,
             num_comparators |-> IF mo.g11 # <<>> THEN mo.g11 ELSE <<"1">>,
             index           |-> 0] >>
    ELSE <<>>

\* IlaSignal.from_str(line)
IlaSignal_from_str(line) ==
    IF IlaSignal_pattern_sig_clk_sv(line) THEN <<>>
    ELSE IlaSignal_of(IlaSignal_pattern_sig_sv(line))

\* VioSignal.from_str, from the match object on: <<>> for None, else
\* <<signal>>; init <<>> is None, radix <<>> is ""
VioSignal_of(mo) ==
    IF mo.mo
    THEN << [name      |-> mo.g6,
             init      |-> mo.g11,
             index     |-> 0,
             width     |-> IF mo.dim
                           THEN int(mo.g3) - int(mo.g4) + 1
                           ELSE 1,
             radix     |-> [i \in 1..Len(mo.g9) |-> upper(mo.g9[i])],
             direction |-> mo.g5[1]] >>
    ELSE <<>>

\* VioSignal.from_str(line)
VioSignal_from_str(line) == VioSignal_of(VioSignal_pattern_sig_sv(line))

\* IlaSignal.print_instantiation
IlaSignal_print_instantiation(sig) ==
    <<"    ", ".", "probe" \o str(sig.index), Pad13, "(", "ila_ctrl_">>
    \o sig.ila_name \o <<"_">> \o sig.name \o <<")", ",">>

\* VioSignal.print_instantiation(probe_index)
VioSignal_print_instantiation(sig, probe_index) ==
    <<"    ", ".", "probe_" \o sig.direction \o str(probe_index),
      IF sig.direction = "in" THEN Pad14 ELSE Pad13,
      "(", "vio_ctrl_", sig.direction, "_">> \o sig.name \o <<")", ",">>

----------------------------------------------------------------------------
(* Debug cores: XilinxIlaCore, XilinxVioCore                               *)

\* list.index(ila_name) over the detected cores, 0 if there is none
core_index(cores, ila_name) ==
    IF \E i \in 1..Len(cores) : cores[i].name = ila_name
    THEN CHOOSE i \in 1..Len(cores) :
             /\ cores[i].name = ila_name
             /\ \A j \in 1..(i - 1) : cores[j].name # ila_name
    ELSE 0

\* a variant of ila_add_signal that numbers the signals of all cores in one
\* sequence
RECURSIVE count_signals(_)
count_signals(cores) ==
    IF cores = <<>> THEN 0
    ELSE Len(Head(cores).signals) + count_signals(Tail(cores))

ila_add_signal_global(cores, sig, c) ==
    LET n == count_signals(cores)
    IN  IF c > 0
        THEN [cores EXCEPT ![c].signals = Append(@, [sig EXCEPT !.index = n])]
        ELSE Append(cores, [name    |-> sig.ila_name,
                            signals |-> <<[sig EXCEPT !.index = n]>>])

\* the signal sig joins the core of index c, or a new core if c = 0
ila_add_signal(cores, sig, c) ==
    IF c > 0
    THEN [cores EXCEPT ![c].signals =
             Append(@, [sig EXCEPT !.index = Len(cores[c].signals)])]
    ELSE Append(cores, [name    |-> sig.ila_name,
                        signals |-> <<[sig EXCEPT !.index = 0]>>])

\* the body of the loop, for the result s of IlaSignal.from_str
ila_add(cores, s) ==
    IF s = <<>> THEN cores
    ELSE ila_add_signal(cores, s[1], core_index(cores, s[1].ila_name))

\* one iteration of the loop of XilinxIlaCore.from_module
ila_add_line(cores, line) == ila_add(cores, IlaSignal_from_str(line))

\* XilinxIlaCore.from_module: the list of cores, <<>> for None
RECURSIVE XilinxIlaCore_from_module(_)
XilinxIlaCore_from_module(l_lines) ==
    IF l_lines = <<>> THEN <<>>
    ELSE ila_add_line(
             XilinxIlaCore_from_module(SubSeq(l_lines, 1, Len(l_lines) - 1)),
             l_lines[Len(l_lines)])

\* the signals of direction dir
signals_of(signals, dir) == SelectSeq(signals, LAMBDA x : x.direction = dir)

\* a variant of vio_add with one counter for both directions
vio_add_one_counter(signals, s) ==
    IF s = <<>> THEN signals
    ELSE Append(signals, [s[1] EXCEPT !.index = Len(signals)])

\* the body of the loop, for the result s of VioSignal.from_str
vio_add(signals, s) ==
    IF s = <<>> THEN signals
    ELSE Append(signals,
             [s[1] EXCEPT !.index =
                  Len(signals_of(signals, s[1].direction))])

\* one iteration of the loop of XilinxVioCore.from_module
vio_add_line(signals, line) == vio_add(signals, VioSignal_from_str(line))

\* XilinxVioCore.from_module: the signals of the core, <<>> for None
RECURSIVE XilinxVioCore_from_module(_)
XilinxVioCore_from_module(l_lines) ==
    IF l_lines = <<>> THEN <<>>
    ELSE vio_add_line(
             XilinxVioCore_from_module(SubSeq(l_lines, 1, Len(l_lines) - 1)),
             l_lines[Len(l_lines)])

\* l_lines.pop(); l_lines.append(s_last_line.replace(',','')); append(");")
close_instantiation(l_lines) ==
    [i \in 1..Len(l_lines) |->
        IF i = Len(l_lines) THEN remove_commas(l_lines[i]) ELSE l_lines[i]]
    \o << <<")", ";">> >>

\* XilinxIlaCore.generate_ip_instantiation (lines without newline)
XilinxIlaCore_generate_ip_instantiation(core) ==
    close_instantiation(
        << <<"xip_ila_ctrl_", module_name, "_">> \o core.name
               \o <<" ", "inst_xip_ila_ctrl_", module_name, "_">> \o core.name
               \o <<" ", "(">>,
           <<"    ", ".", "clk", Pad20, "(", "ila_ctrl_">> \o core.name
               \o <<"_", "clk", ")", ",">> >>
        \o [i \in 1..Len(core.signals) |->
               IlaSignal_print_instantiation(core.signals[i])])

\* a variant of XilinxVioCore.generate_ip_instantiation that numbers the
\* probes over one list of all signals
XilinxVioCore_generate_ip_instantiation_one_list(signals) ==
    close_instantiation(
        << <<"xip_vio_ctrl_", module_name, " ",
             "inst_xip_vio_ctrl_", module_name, " ", "(">>,
           <<"    ", ".", "clk", Pad20, "(", "vio_ctrl_", "clk",
             ")", ",">> >>
        \o [i \in 1..Len(signals) |->
               VioSignal_print_instantiation(signals[i], i - 1)])

\* XilinxVioCore.generate_ip_instantiation (lines without newline)
XilinxVioCore_generate_ip_instantiation(signals) ==
    LET l_signals_in  == signals_of(signals, "in")
        l_signals_out == signals_of(signals, "out")
    IN  close_instantiation(
            << <<"xip_vio_ctrl_", module_name, " ",
                 "inst_xip_vio_ctrl_", module_name, " ", "(">>,
               <<"    ", ".", "clk", Pad20, "(", "vio_ctrl_", "clk",
                 ")", ",">> >>
            \o [i \in 1..Len(l_signals_in) |->
                   VioSignal_print_instantiation(l_signals_in[i], i - 1)]
            \o [i \in 1..Len(l_signals_out) |->
                   VioSignal_print_instantiation(l_signals_out[i], i - 1)])

\* [x + "\n" for x in l_lines]
with_newlines(l_lines) ==
    [i \in 1..Len(l_lines) |-> Append(l_lines[i], "\n")]

\* sum(lists, [])
RECURSIVE flatten(_)
flatten(ll) == IF ll = <<>> THEN <<>> ELSE Head(ll) \o flatten(Tail(ll))

\* XilinxIlaCore.generate_ip_declaration; a line of the Tcl file is the
\* sequence of its literal texts and interpolated values
XilinxIlaCore_generate_ip_declaration(core) ==
    << <<"lappend xips [dict create                                   \\">>,
       <<"    name                    xip_ila_ctrl_", module_name, "_">>
           \o core.name \o <<" \\">>,
       <<"    ip_name                 ila                           \\">>,
       <<"    ip_vendor               xilinx.com                    \\">>,
       <<"    ip_library              ip                            \\">>,
       <<"    config [dict create                                     \\">> >>
    \o flatten([i \in 1..Len(core.signals) |->
          << <<"        CONFIG.C_PROBE", str(core.signals[i].index),
               "_WIDTH {", str(core.signals[i].width), "} \\">>,
             <<"        CONFIG.C_PROBE", str(core.signals[i].index),
               "_TYPE {", str(trigger_type_xilinx_id(core.signals[i])),
               "} \\">> >>])
    \o << <<"        CONFIG.C_NUM_OF_PROBES                  {",
            str(Len(core.signals)), "} \\">>,
          <<"        CONFIG.C_DATA_DEPTH                     {{16384}}                  \\">>,
          <<"        ]                                                                   \\">>,
          <<"    ]">> >>

\* a variant of vio_declare_signal that writes no initial value
vio_declare_signal_width_only(signal) ==
    << <<"        CONFIG.C_PROBE_", upper(signal.direction),
         str(signal.index), "_WIDTH {", str(signal.width), "} \\">> >>

\* the body of the loop of XilinxVioCore.generate_ip_declaration: the
\* lines of one signal
vio_declare_signal(signal) ==
    << <<"        CONFIG.C_PROBE_", upper(signal.direction),
         str(signal.index), "_WIDTH {", str(signal.width), "} \\">> >>
    \o IF signal.init # <<>>
       THEN << <<"        CONFIG.C_PROBE_", upper(signal.direction),
                 str(signal.index), "_INIT_VAL {0x">>
               \o signal.init \o <<"} \\">> >>
       ELSE <<>>

\* XilinxVioCore.generate_ip_declaration
XilinxVioCore_generate_ip_declaration(signals) ==
    << <<"# xilinx ip for top level hardware control vio">>,
       <<"lappend xips [dict create                                   \\">>,
       <<"    name                    xip_vio_ctrl_", module_name, " \\">>,
       <<"    ip_name                 vio                           \\">>,
       <<"    ip_vendor               xilinx.com                    \\">>,
       <<"    ip_library              ip                            \\">>,
       <<"    config [dict create                                     \\">> >>
    \o flatten([i \in 1..Len(signals) |-> vio_declare_signal(signals[i])])
    \o << <<"        CONFIG.C_NUM_PROBE_IN                   {",
            str(Len(signals_of(signals, "in"))), "}         \\">>,
          <<"        CONFIG.C_NUM_PROBE_OUT                  {",
            str(Len(signals_of(signals, "out"))), "}         \\">>,
          <<"        CONFIG.C_EN_PROBE_IN_ACTIVITY           {1}                         \\">>,
          <<"        ]                                                                   \\">>,
          <<"    ]">> >>

\* XilinxDebugCoreManager.write_xips_declaration: the lines written, for
\* the VIO core vio and the ILA cores ila of the manager (both present)
write_xips_declaration(vio, ila) ==
    with_newlines(
        << <<"# --- GENERATED CODE --- */">>, <<"set xips []">>, <<>> >>
        \o XilinxVioCore_generate_ip_declaration(vio) \o << <<>> >>
        \o flatten([i \in 1..Len(ila) |->
               XilinxIlaCore_generate_ip_declaration(ila[i]) \o << <<>> >>])
        \o << <<"# ---------------------- */">> >>)

\* a variant of write_json_sig_list_of that does not load the existing
\* definitions
write_json_sig_list_not_loaded(reg, self_module_name, signals) ==
    <<[module |-> self_module_name, signals |-> signals]>>

\* XilinxVioCore.write_json_sig_list of the core of the module
\* self_module_name: json.load, vio_ctrl_signals[self.module_name] = list,
\* json.dump
write_json_sig_list_of(reg, self_module_name, signals) ==
    IF \E i \in 1..Len(reg) : reg[i].module = self_module_name
    THEN [i \in 1..Len(reg) |->
             IF reg[i].module = self_module_name
             THEN [module |-> self_module_name, signals |-> signals]
             ELSE reg[i]]
    ELSE Append(reg, [module |-> self_module_name, signals |-> signals])

\* XilinxVioCore.write_json_sig_list: vio_ctrl_signals[module_name] = list
\* of the signals' fields; the registry is a dict, keys in insertion order
write_json_sig_list(reg, signals) ==
    write_json_sig_list_of(reg, module_name, signals)

----------------------------------------------------------------------------
(* XilinxDebugCoreManager._update_module and process_module                *)

\* re.match(s_pattern_inst_vio, line)
pattern_inst_vio(line) ==
    LET i == SkipWs(line, 1)
        j == SkipWs(line, i + 2)
    IN  /\ At(line, i) = "xip_vio_ctrl_" /\ At(line, i + 1) = module_name
        /\ IsWs(At(line, i + 2))
        /\ At(line, j) = "inst_xip_vio_ctrl_"
        /\ At(line, j + 1) = module_name
        /\ At(line, SkipWs(line, j + 2)) = "("

\* re.match(s_pattern_inst_ila, line)
pattern_inst_ila(line) ==
    LET i  == SkipWs(line, 1)
        e  == SkipAlnum(line, i + 3)
        j  == SkipWs(line, e)
        e2 == SkipAlnum(line, j + 3)
    IN  /\ At(line, i) = "xip_ila_ctrl_" /\ At(line, i + 1) = module_name
        /\ At(line, i + 2) = "_" /\ e > i + 3
        /\ IsWs(At(line, e))
        /\ At(line, j) = "inst_xip_ila_ctrl_"
        /\ At(line, j + 1) = module_name
        /\ At(line, j + 2) = "_" /\ e2 > j + 3
        /\ At(line, SkipWs(line, e2)) = "("

\* pattern_inst_debug_core.match(line)
pattern_inst_debug_core(line) ==
    pattern_inst_vio(line) \/ pattern_inst_ila(line)

\* a variant of line_find that finds no marker in any line: the marker lines
\* of a previous run are then copied as user lines
line_find_nothing(line, marker) == FALSE

\* line.find(marker) != -1
line_find(line, marker) == \E i \in 1..Len(line) : line[i] = marker

\* re.match(r'[\s]*endmodule[\s]', line)
match_endmodule(line) ==
    LET i == SkipWs(line, 1)
    IN  At(line, i) = "endmodule" /\ IsWs(At(line, i + 1))

\* re.match(r'[\s]*\)[\s]*;[\s]*', line)
match_inst_end(line) ==
    LET i == SkipWs(line, 1)
    IN  At(line, i) = ")" /\ At(line, SkipWs(line, i + 1)) = ";"

\* the lines generated at 'endmodule', from the start marker to the end
\* marker; with ila = <<>> (None) the loop over the ILA cores raises
generated_block(vio, ila) ==
    LET l_cores ==
            flatten([i \in 1..Len(ila) |->
                with_newlines(XilinxIlaCore_generate_ip_instantiation(ila[i]))
                \o <<empty_line>>])
            \o IF vio # <<>>
               THEN with_newlines(XilinxVioCore_generate_ip_instantiation(vio))
                    \o <<empty_line>>
               ELSE <<>>
    IN  << <<S_GENERATED_CODE_START, "\n">> >>
        \o SubSeq(l_cores, 1, Len(l_cores) - 1)
        \o << <<S_GENERATED_CODE_END, "\n">> >>

\* the local variables before the loop over the lines
update_init ==
    [l_lines_new               |-> <<>>,
     pointer_in_module_inst    |-> FALSE,
     pointer_in_generated_code |-> FALSE,
     done                      |-> FALSE,      \* the loop was left by 'break'
     raised                    |-> FALSE]

\* one iteration of 'for line in l_lines_old'
update_line(st, line, vio, ila) ==
    IF st.done \/ st.raised THEN st
    ELSE IF st.pointer_in_module_inst
    THEN IF match_inst_end(line)
         THEN [st EXCEPT !.pointer_in_module_inst = FALSE]
         ELSE st
    ELSE IF pattern_inst_debug_core(line)
    THEN [st EXCEPT !.pointer_in_module_inst = TRUE]
    ELSE IF line_find(line, S_GENERATED_CODE_START)
    THEN [st EXCEPT !.pointer_in_generated_code = TRUE]
    ELSE IF line_find(line, S_GENERATED_CODE_END)
    THEN [st EXCEPT !.pointer_in_generated_code = FALSE]
    ELSE IF match_endmodule(line)
    THEN IF ila = <<>>
         THEN [st EXCEPT !.raised = TRUE]
         ELSE [st EXCEPT !.l_lines_new =
                             st.l_lines_new \o generated_block(vio, ila)
                             \o <<line>>,
                         !.done = TRUE]
    ELSE IF ~st.pointer_in_generated_code
    THEN [st EXCEPT !.l_lines_new = Append(st.l_lines_new, line)]
    ELSE st

\* the loop over the first n lines
RECURSIVE update_lines(_, _, _, _)
update_lines(l_lines_old, n, vio, ila) ==
    IF n = 0 THEN update_init
    ELSE update_line(update_lines(l_lines_old, n - 1, vio, ila),
                     l_lines_old[n], vio, ila)

\* _update_module: the file after the call and whether the call raised (it
\* then raised before the write).
\* the file after the loop ended in state st
update_written(l_lines_old, st) ==
    [raised |-> st.raised,
     out    |-> IF st.raised THEN l_lines_old ELSE st.l_lines_new]

\* _update_module for the cores vio and ila of the manager
update_module(l_lines_old, vio, ila) ==
    update_written(l_lines_old,
                   update_lines(l_lines_old, Len(l_lines_old), vio, ila))

\* _parse_module: the VIO core and the ILA cores of the module
parse_module(l_lines) ==
    [vio |-> XilinxVioCore_from_module(l_lines),
     ila |-> XilinxIlaCore_from_module(l_lines)]

\* process_module after _update_module, of result u: the three files after
\* the call and whether it raised.  _update_module raises before it writes;
\* dict_vio_cores[module_name] is None without VIO signals and
\* .write_json_sig_list raises, after the module file is written;
\* list_ila_cores raises on a None entry, after the registry is written.
process_outputs(l_lines, reg, decl, c, u) ==
    IF u.raised
    THEN [raised |-> TRUE, file |-> l_lines, registry |-> reg, xips |-> decl]
    ELSE IF c.vio = <<>>
    THEN [raised |-> TRUE, file |-> u.out, registry |-> reg, xips |-> decl]
    ELSE IF c.ila = <<>>
    THEN [raised |-> TRUE, file |-> u.out,
          registry |-> write_json_sig_list(reg, c.vio), xips |-> decl]
    ELSE [raised |-> FALSE, file |-> u.out,
          registry |-> write_json_sig_list(reg, c.vio),
          xips |-> write_xips_declaration(c.vio, c.ila)]

\* process_module after _parse_module, for the cores c it found
process_cores(l_lines, reg, decl, c) ==
    process_outputs(l_lines, reg, decl, c,
                    update_module(l_lines, c.vio, c.ila))

\* process_module: the three files after the call and whether it raised
process_module(l_lines, reg, decl) ==
    process_cores(l_lines, reg, decl, parse_module(l_lines))

----------------------------------------------------------------------------
(* Module files of process_module: every sequence of at most MaxLines      *)
(* lines of DbgLines in which only the last line may lack its newline.     *)
(* Between two runs the user may declare one more debug signal, of         *)
(* DeclLines.                                                              *)

D_ila_a         == <<"logic", " ", "ila_ctrl_", "a", "_", "x", ";", "\n">>
D_ila_b         == <<"wire", " ", "[", "7", ":", "0", "]", " ", "ila_ctrl_",
                     "b", "_", "y", ";", " ", "//", " ", "trigger_type", "=",
                     "data", "\n">>
D_vio_in        == <<"logic", " ", "vio_ctrl_", "in", "_", "en", ";", " ",
                     "//", " ", "radix", "=", "hex", " ", "init", "=", "1",
                     "\n">>
D_vio_out       == <<"reg", " ", "[", "3", ":", "0", "]", " ", "vio_ctrl_",
                     "out", "_", "q", ";", "\n">>
D_start         == <<S_GENERATED_CODE_START, "\n">>
D_end           == <<S_GENERATED_CODE_END, "\n">>
D_inst_vio      == <<"xip_vio_ctrl_", module_name, " ", "inst_xip_vio_ctrl_",
                     module_name, " ", "(", "\n">>
D_inst_ila      == <<"xip_ila_ctrl_", module_name, "_", "a", " ",
                     "inst_xip_ila_ctrl_", module_name, "_", "a", " ", "(",
                     "\n">>
D_endmodule     == <<"endmodule", "\n">>
D_endmodule_eof == <<"endmodule">>
D_endmodule_cmt == <<"endmodule", " ", "//", " ", module_name, "\n">>

DeclLines == {D_ila_a, D_ila_b, D_vio_in, D_vio_out}

DbgLines == {D_ila_a, D_vio_in, L_code, D_start, D_end, D_inst_vio, L_end,
             D_endmodule, D_endmodule_eof, D_endmodule_cmt}

\* f.readlines(): every line but the last ends with a newline
IsReadlines(f) == \A i \in 1..(Len(f) - 1) : f[i][Len(f[i])] = "\n"

\* the registry before the first run: no file, or the entry of another
\* module
OtherEntry ==
    [module  |-> "sub",
     signals |-> <<[name |-> <<"go">>, init |-> <<>>, index |-> 0,
                    width |-> 1, radix |-> <<>>, direction |-> "out"]>>]

InitDbg ==
    /\ file \in {f \in Files(DbgLines) : IsReadlines(f)}
    /\ orig = file
    /\ prev = file
    /\ runs = 0
    /\ raised = FALSE
    /\ step = "init"
    /\ ports = <<>>
    /\ no_create = FALSE
    /\ registry \in {<<>>, <<OtherEntry>>}
    /\ xips = <<>>
    /\ ret = <<>>

\* the files after a call of result r
Written(r) ==
    /\ file' = r.file
    /\ raised' = r.raised
    /\ registry' = r.registry
    /\ xips' = r.xips

ProcessModule ==
    /\ runs < MaxRuns
    /\ Written(process_module(file, registry, xips))
    /\ prev' = file
    /\ runs' = runs + 1
    /\ step' = IF step \in {"run", "rerun"} THEN "rerun" ELSE "run"
    /\ UNCHANGED <<orig, ports, no_create, ret>>

\* the user declares one more debug signal at the top of the module
DeclareSignal ==
    /\ step \in {"run", "rerun"}
    /\ runs < MaxRuns
    /\ \E l \in DeclLines : l \notin Range(file) /\ file' = <<l>> \o file
    /\ step' = "edit"
    /\ UNCHANGED <<orig, prev, runs, raised, ports, no_create, registry, xips,
                   ret>>

NextDbg == ProcessModule \/ DeclareSignal

SpecDbg == InitDbg /\ [][NextDbg]_vars

----------------------------------------------------------------------------
(* The reader's view of a file, used to state the properties: what a line  *)
(* is to somebody who reads the SystemVerilog text, independently of the   *)
(* patterns of the code.                                                   *)

NoWs(line) == SelectSeq(line, LAMBDA t : ~IsWs(t))

\* '<module> <instance> (' or ') <instance> (', for the instance name inst
IsInstStart(line, inst) ==
    NoWs(line) \in {<<name, inst, "(">>, <<")", inst, "(">>}

\* the line starts the port list of an instantiation, of any instance name
IsInstStartAny(line) ==
    LET t == NoWs(line)
    IN  Len(t) = 3 /\ t[1] \in {name, ")"} /\ IsWord(t[2]) /\ t[3] = "("

\* '<module> #('
IsParamStart(line) == NoWs(line) = <<name, "#", "(">>

\* the line ends with ');': it closes an instantiation
ClosesInst(line) ==
    LET t == NoWs(line)
    IN  Len(t) >= 2 /\ t[Len(t) - 1] = ")" /\ t[Len(t)] = ";"

IsEndmodule(line) == Len(NoWs(line)) >= 1 /\ NoWs(line)[1] = "endmodule"

\* position of the ')' that closes the connection opened at token 3
RECURSIVE ConnClose(_, _, _)
ConnClose(t, i, depth) ==
    IF i > Len(t) THEN 0
    ELSE IF t[i] = "(" THEN ConnClose(t, i + 1, depth + 1)
    ELSE IF t[i] = ")" THEN
        IF depth = 1 THEN i ELSE ConnClose(t, i + 1, depth - 1)
    ELSE ConnClose(t, i + 1, depth)

\* '.P (X)', possibly followed by ',' or ');'
IsConnLine(line) ==
    LET t == NoWs(line)
    IN  /\ Len(t) >= 4
        /\ t[1] = "." /\ IsWord(t[2]) /\ t[3] = "("
        /\ ConnClose(t, 4, 1) # 0

ConnPort(line) == NoWs(line)[2]

ConnText(line) ==
    LET t == NoWs(line) IN SubSeq(t, 4, ConnClose(t, 4, 1) - 1)

\* <<s, e>>: an instantiation of instance name in inst_names whose port list
\* starts on line s and is closed on line e, with connection lines between
Insts(f, inst_names) ==
    {se \in (1..Len(f)) \X (1..Len(f)) :
        /\ se[1] < se[2]
        /\ \E inst \in inst_names : IsInstStart(f[se[1]], inst)
        /\ ClosesInst(f[se[2]])
        /\ \A k \in (se[1] + 1)..(se[2] - 1) :
              IsConnLine(f[k]) /\ ~ClosesInst(f[k])}

StdName  == {INST_PREFIX \o name}
UserName == {"u_" \o name}
AnyName  == StdName \cup UserName

\* the instantiations laid out as the docstring of update_instantiation
\* asks: the closing ');' on a line of its own
DocInsts(f, inst_names) ==
    {se \in Insts(f, inst_names) : NoWs(f[se[2]]) = <<")", ";">>}

\* the file is well-formed SystemVerilog as far as instantiations go: every
\* start of a port list belongs to a closed instantiation, a parameter list
\* '<module> #(' is empty and directly followed by ') <instance> (', and no
\* connection or closing line stands outside an instantiation
ValidSV(f) ==
    /\ \A s \in 1..Len(f) :
          IsInstStartAny(f[s]) =>
              \E e \in 1..Len(f) : <<s, e>> \in Insts(f, AnyName)
    /\ \A i \in 1..Len(f) :
          IsParamStart(f[i]) =>
              i < Len(f) /\ IsInstStartAny(f[i + 1])
                         /\ NoWs(f[i + 1])[1] = ")"
    /\ \A i \in 1..Len(f) :
          (IsInstStartAny(f[i]) /\ NoWs(f[i])[1] = ")") =>
              i > 1 /\ IsParamStart(f[i - 1])
    /\ \A i \in 1..Len(f) :
          (ClosesInst(f[i]) \/ IsConnLine(f[i])) =>
              \E se \in Insts(f, AnyName) : se[1] < i /\ i <= se[2]

\* the connections <<P, X>> of the instantiation se of f
ConnsOf(f, se) ==
    {<<ConnPort(f[k]), ConnText(f[k])>> :
        k \in {j \in (se[1] + 1)..se[2] : IsConnLine(f[j])}}

AllConns(f, inst_names) ==
    UNION {ConnsOf(f, se) : se \in DocInsts(f, inst_names)}

\* a is a subsequence of b
RECURSIVE IsSubseq(_, _)
IsSubseq(a, b) ==
    IF a = <<>> THEN TRUE
    ELSE IF b = <<>> THEN FALSE
    ELSE IF Head(a) = Head(b) THEN IsSubseq(Tail(a), Tail(b))
    ELSE IsSubseq(a, Tail(b))

----------------------------------------------------------------------------
(* Properties of update_instantiation                                      *)

\* C1: for every port P of the interface and every non-empty connection
\* text X, a connection '.P (X)' of an existing instantiation is still a
\* connection of an instantiation after the run.
C1_ConnectionsOfKeptPortsPreserved ==
    (runs = 1 /\ ~raised /\ ValidSV(orig)) =>
        \A c \in AllConns(orig, StdName) :
            (c[1] \in Range(ports) /\ c[2] # <<>>)
                => c \in AllConns(file, StdName)

\* C2: a connection of an existing instantiation whose port is not a port of
\* the interface has no connection line after the run; existing a->sig1,
\* b->sig2 with interface {a, c} gives exactly {a: sig1, c: empty}.
C2_RemovedPortsDropped ==
    (runs = 1 /\ ~raised /\ ValidSV(orig)) =>
        /\ \A c \in AllConns(orig, StdName) :
              c[1] \notin Range(ports)
                  => \A c2 \in AllConns(file, StdName) : c2[1] # c[1]
        /\ (orig = <<L_begin, L_conn_a, L_conn_b, L_end>>
                /\ ports = <<"a", "c">>)
              => AllConns(file, StdName)
                     = {<<"a", <<"sig1">> >>, <<"c", <<>> >>}

\* C3: a second run with the unchanged interface leaves the file as the
\* first run wrote it.
C3_SecondRunIdentical == (runs = 2 /\ ValidSV(orig)) => file = prev

\* the lines of f inside an instantiation of instance name in inst_names:
\* after its start line, up to its closing line if that is a connection too
InsideInst(f, inst_names) ==
    {i \in 1..Len(f) :
        \E se \in Insts(f, inst_names) :
            /\ se[1] < i
            /\ i < se[2] \/ (i = se[2] /\ IsConnLine(f[i]))}

OutsideLines(f, inst_names) ==
    LET keep == {i \in 1..Len(f) : i \notin InsideInst(f, inst_names)}
        F[i \in 0..Len(f)] ==
            IF i = 0 THEN <<>>
            ELSE IF i \in keep THEN Append(F[i - 1], f[i]) ELSE F[i - 1]
    IN  F[Len(f)]

NoInstLines(f) ==
    \A i \in 1..Len(f) : ~IsInstStartAny(f[i]) /\ ~IsParamStart(f[i])

HasEndmodule(f) == \E i \in 1..Len(f) : IsEndmodule(f[i])

FirstEndmodule(f) ==
    CHOOSE i \in 1..Len(f) :
        IsEndmodule(f[i]) /\ \A j \in 1..(i - 1) : ~IsEndmodule(f[j])

\* at line e of f stands a new instantiation with one empty connection per
\* port of prts, in order, followed (after blank lines) by the line last
NewInstAt(f, e, prts, last) ==
    LET n == Len(prts)
    IN  /\ Len(f) >= e + n + 2
        /\ IsInstStart(f[e], INST_PREFIX \o name)
        /\ \A k \in 1..n :
              /\ IsConnLine(f[e + k])
              /\ ConnPort(f[e + k]) = prts[k]
              /\ ConnText(f[e + k]) = <<>>
        /\ NoWs(f[e + n + 1]) = <<")", ";">>
        /\ \E m \in (e + n + 2)..Len(f) :
              /\ f[m] = last
              /\ \A j \in (e + n + 2)..(m - 1) : NoWs(f[j]) = <<>>

\* C6: when no instantiation precedes the 'endmodule' line, a new one with
\* one empty connection per port is inserted immediately before that line,
\* unless no_create is set, and then the file is left unchanged.
C6_NewInstantiationBeforeEndmodule ==
    (runs = 1 /\ NoInstLines(orig) /\ HasEndmodule(orig)) =>
        LET e == FirstEndmodule(orig)
        IN  IF no_create THEN file = orig
            ELSE /\ SubSeq(file, 1, e - 1) = SubSeq(orig, 1, e - 1)
                 /\ NewInstAt(file, e, ports, orig[e])

\* C7: with more than one instantiation in the file only the first is
\* rewritten: the file from the start line of a later one on is unchanged.
C7_OnlyFirstInstantiationRewritten ==
    (runs = 1 /\ ~raised /\ ValidSV(orig)) =>
        \A se1, se2 \in DocInsts(orig, StdName) :
            se1[2] < se2[1] =>
                SubSeq(file, Len(file) - (Len(orig) - se2[1]), Len(file))
                    = SubSeq(orig, se2[1], Len(orig))

\* C8: every line outside the matched instantiations is in the output,
\* unchanged and in the original order.
C8_OutsideLinesCopied ==
    (runs = 1 /\ ~raised /\ ValidSV(orig)) =>
        IsSubseq(OutsideLines(orig, StdName), file)

\* C10: an existing instantiation '<module> <instance-name> (' of a
\* user-chosen instance name is rewritten in place (it gets a connection
\* line for every port) and no further instantiation is created.
C10_UserInstanceNameRecognized ==
    (runs = 1 /\ ~raised /\ ValidSV(orig)
        /\ DocInsts(orig, UserName) # {}) =>
        /\ Cardinality({i \in 1..Len(file) : IsInstStartAny(file[i])})
               = Cardinality({i \in 1..Len(orig) : IsInstStartAny(orig[i])})
        /\ \A se \in DocInsts(file, UserName) :
               Range(ports) \subseteq {c[1] : c \in ConnsOf(file, se)}

----------------------------------------------------------------------------
(* Properties of process_module                                            *)

IsStartMarker(line) == S_GENERATED_CODE_START \in Range(line)
IsEndMarker(line)   == S_GENERATED_CODE_END \in Range(line)

\* the first line of the instantiation of the VIO core of the module
IsVioInstStart(line) ==
    NoWs(line) = <<"xip_vio_ctrl_", module_name, "inst_xip_vio_ctrl_",
                   module_name, "(">>

\* the first line of the instantiation of the ILA core of name n
IsIlaInstStart(line, n) ==
    NoWs(line) = <<"xip_ila_ctrl_", module_name, "_">> \o n
                 \o <<"inst_xip_ila_ctrl_", module_name, "_">> \o n
                 \o <<"(">>

\* the first line of the instantiation of some debug core
IsDbgInstStart(line) ==
    LET t == NoWs(line)
    IN  /\ Len(t) >= 2
        /\ t[1] \in {"xip_vio_ctrl_", "xip_ila_ctrl_"}
        /\ t[Len(t)] = "("

StartMarkers(f)  == {i \in 1..Len(f) : IsStartMarker(f[i])}
EndMarkers(f)    == {i \in 1..Len(f) : IsEndMarker(f[i])}
VioInstStarts(f) == {i \in 1..Len(f) : IsVioInstStart(f[i])}
DbgInstStarts(f) == {i \in 1..Len(f) : IsDbgInstStart(f[i])}

\* the lines from a start marker to the next end marker
MarkedRegion(f) ==
    {i \in 1..Len(f) :
        \E s \in 1..i : \E e \in i..Len(f) :
            /\ IsStartMarker(f[s]) /\ IsEndMarker(f[e])
            /\ \A k \in (s + 1)..(e - 1) :
                  ~IsStartMarker(f[k]) /\ ~IsEndMarker(f[k])}

\* markers come in pairs, and the instantiations of debug cores (their
\* first lines, their closing lines) stand between markers
WellMarked(f) ==
    \A i \in 1..Len(f) :
        (IsStartMarker(f[i]) \/ IsEndMarker(f[i]) \/ IsDbgInstStart(f[i])
            \/ ClosesInst(f[i]))
        => i \in MarkedRegion(f)

\* the lines of f outside the markers
OutsideMarked(f) ==
    LET F[i \in 0..Len(f)] ==
            IF i = 0 THEN <<>>
            ELSE IF i \in MarkedRegion(f) THEN F[i - 1]
            ELSE Append(F[i - 1], f[i])
    IN  F[Len(f)]

\* C4: a run on the file a run produced, whose debug signal declarations
\* are those the producing run saw, leaves the module file as it is.
C4_ProcessModuleIdempotent ==
    [][(/\ step \in {"run", "rerun"}
        /\ runs' = runs + 1
        /\ parse_module(file) = parse_module(prev))
       => file' = file]_vars

\* a second run that found the generated block of the first run, written
\* for an ILA core and the VIO core, and the declarations unchanged
C4_Witness ==
    /\ runs = 2 /\ step = "rerun" /\ ~raised
    /\ parse_module(orig) = parse_module(prev)
    /\ prev # orig
    /\ file = prev
    /\ StartMarkers(prev) # {}
    /\ VioInstStarts(prev) # {}
    /\ DbgInstStarts(prev) # VioInstStarts(prev)

\* C5: after a run on a module file that ends with its 'endmodule' line,
\* the file holds one start marker line, one end marker line and, between
\* them, one instantiation per debug core the run knows, and no
\* instantiation of a debug core elsewhere.
C5_OneMarkedBlockWithAllCores ==
    (/\ step \in {"run", "rerun"} /\ ~raised
     /\ Len(prev) > 0 /\ IsEndmodule(prev[Len(prev)])
     /\ WellMarked(prev)) =>
        LET S     == StartMarkers(file)
            E     == EndMarkers(file)
            cores == parse_module(prev)
            In(i) == \A s \in S : \A e \in E : s < i /\ i < e
        IN  /\ Cardinality(S) = 1
            /\ Cardinality(E) = 1
            /\ \A c \in Range(cores.ila) :
                  Cardinality({i \in 1..Len(file) :
                                  IsIlaInstStart(file[i], c.name)}) = 1
            /\ cores.vio # <<>> =>
                  Cardinality(VioInstStarts(file)) = 1
            /\ \A i \in DbgInstStarts(file) :
                  /\ In(i)
                  /\ \/ IsVioInstStart(file[i]) /\ cores.vio # <<>>
                     \/ \E c \in Range(cores.ila) :
                            IsIlaInstStart(file[i], c.name)

\* C9: the lines outside the markers are the same before and after a run,
\* the lines after 'endmodule' included.
C9_OutsideMarkersUnchanged ==
    (step \in {"run", "rerun"} /\ ~raised /\ WellMarked(prev)) =>
        OutsideMarked(file) = OutsideMarked(prev)

----------------------------------------------------------------------------
(* The inputs on which the violated properties hold                        *)

\* connections that are one plain identifier are preserved
PlainIdentifierConnectionsPreserved ==
    (runs = 1 /\ ~raised /\ ValidSV(orig)) =>
        \A c \in AllConns(orig, StdName) :
            (c[1] \in Range(ports) /\ c[2] # <<>> /\ Len(c[2]) = 1)
                => c \in AllConns(file, StdName)

\* the second run changes nothing when every instantiation is closed by a
\* ');' on a line of its own
SecondRunIdenticalDocLayout ==
    (runs = 2 /\ ValidSV(orig)
        /\ Insts(orig, AnyName) = DocInsts(orig, AnyName)) => file = prev

\* a new instantiation is created for every interface with a port
NewInstantiationNonEmptyInterface ==
    ports # <<>> => C6_NewInstantiationBeforeEndmodule

\* the outside lines are copied when every instantiation is closed by a
\* ');' on a line of its own
OutsideLinesCopiedDocLayout ==
    Insts(orig, AnyName) = DocInsts(orig, AnyName) => C8_OutsideLinesCopied

\* one marked block with all cores, when the 'endmodule' line of the file
\* is followed by whitespace (its newline)
OneMarkedBlockNewlineEndmodule ==
    (Len(prev) > 0 /\ match_endmodule(prev[Len(prev)]))
        => C5_OneMarkedBlockWithAllCores

\* the lines outside the markers are unchanged when no line follows the
\* 'endmodule' line
OutsideMarkersUnchangedNoTrailer ==
    (\A i \in 1..Len(prev) : IsEndmodule(prev[i]) => i = Len(prev))
        => C9_OutsideMarkersUnchanged

----------------------------------------------------------------------------
(* Properties of the emitted connection block                              *)

\* the line is '    .p (X),' followed by a newline, without the comma if
\* last, for some connection text X
IsEmittedConn(line, p, last) ==
    /\ IsConnLine(line)
    /\ line = <<"    ", ".", p, " ", "(">> \o ConnText(line)
              \o (IF last THEN <<")", "\n">> ELSE <<")", ",", "\n">>)

\* the connection texts of the connection lines of port p in f
ConnTextsOf(f, p) ==
    {ConnText(f[k]) : k \in {j \in 1..Len(f) :
                                 IsConnLine(f[j]) /\ ConnPort(f[j]) = p}}

\* C11: after a run, the connection block of every instantiation the run
\* emitted has exactly one line per port of the interface, in declaration
\* order, of the form '.port (connection),', the last line without the
\* comma, and the connection text is one that stood in the file for that
\* port, or empty.
C11_ConnectionBlockOneLinePerPort ==
    (runs = 1 /\ ~raised /\ ValidSV(orig)
        /\ Insts(orig, AnyName) = DocInsts(orig, AnyName)) =>
        \A se \in Insts(file, StdName) :
            /\ se[2] - se[1] - 1 = Len(ports)
            /\ \A k \in 1..Len(ports) :
                  /\ IsEmittedConn(file[se[1] + k], ports[k], k = Len(ports))
                  /\ ConnText(file[se[1] + k])
                         \in ConnTextsOf(orig, ports[k]) \cup {<<>>}

\* the connection block has one line per port when every connection of the
\* existing instantiations is the connection of a port of the interface
ConnectionBlockOneLinePerPortKeptPorts ==
    (\A c \in AllConns(orig, StdName) : c[1] \in Range(ports))
        => C11_ConnectionBlockOneLinePerPort

\* a run that rewrote an instantiation with a connection per port
ConnectionBlockRewritten ==
    /\ runs = 1 /\ ~raised /\ ValidSV(orig)
    /\ Insts(orig, AnyName) = DocInsts(orig, AnyName)
    /\ Len(ports) = 2
    /\ \E se \in Insts(file, StdName) :
          /\ se[2] - se[1] - 1 = 2
          /\ ConnText(file[se[1] + 1]) = <<"sig1">>

----------------------------------------------------------------------------
(* Properties of the generated region                                      *)

\* the lines of f between its first start marker and its first end marker
RegionLines(f) ==
    LET s == CHOOSE i \in StartMarkers(f) : \A j \in StartMarkers(f) : i <= j
        e == CHOOSE i \in EndMarkers(f) : \A j \in EndMarkers(f) : i <= j
    IN  SubSeq(f, s + 1, e - 1)

\* the lines of l_lines that are not blank
NonBlank(l_lines) == SelectSeq(l_lines, LAMBDA l : NoWs(l) # <<>>)

\* the instantiation text of the cores c: every ILA core in the order of
\* the list, then the VIO core if there is one
FreshText(c) ==
    flatten([i \in 1..Len(c.ila) |->
                with_newlines(XilinxIlaCore_generate_ip_instantiation(c.ila[i]))])
    \o IF c.vio # <<>>
       THEN with_newlines(XilinxVioCore_generate_ip_instantiation(c.vio))
       ELSE <<>>

\* the module file ends with its 'endmodule' line, its markers are paired
\* and the module declares a debug signal
RegionExpected(f) ==
    /\ Len(f) > 0 /\ IsEndmodule(f[Len(f)])
    /\ WellMarked(f)
    /\ parse_module(f) # [vio |-> <<>>, ila |-> <<>>]

\* C12: after a run the file has one generated region and its content is
\* the fresh instantiation text of every core of the module, the ILA cores
\* in first-seen order and then the VIO core; nothing of the previous
\* content of the region is left.
C12_RegionHoldsFreshInstantiations ==
    (step \in {"run", "rerun"} /\ RegionExpected(prev)) =>
        /\ Cardinality(StartMarkers(file)) = 1
        /\ Cardinality(EndMarkers(file)) = 1
        /\ NonBlank(RegionLines(file)) = FreshText(parse_module(prev))

\* the region holds the fresh text when the module has an ILA core and its
\* 'endmodule' line is followed by whitespace
RegionHoldsFreshInstantiationsIlaNewline ==
    (parse_module(prev).ila # <<>> /\ Len(prev) > 0
        /\ match_endmodule(prev[Len(prev)]))
        => C12_RegionHoldsFreshInstantiations

\* a run that replaced a region by the text of two ILA cores and the VIO
\* core
RegionReplaced ==
    /\ step = "run" /\ runs = 2 /\ RegionExpected(prev)
    /\ StartMarkers(prev) # {}
    /\ Len(parse_module(prev).ila) = 2 /\ parse_module(prev).vio # <<>>
    /\ NonBlank(RegionLines(file)) = FreshText(parse_module(prev))
    /\ file # prev

\* the module declares debug signals of one kind only
OneKindAbsent(c) == (c.ila = <<>>) # (c.vio = <<>>)

\* C13: a run on a module with ILA signals and no VIO signal, or with VIO
\* signals and no ILA signal, does not raise, and the generated region
\* holds the instantiations of the cores that exist.
C13_AbsentCoreKindHandled ==
    (step \in {"run", "rerun"} /\ OneKindAbsent(parse_module(prev))) =>
        /\ ~raised
        /\ RegionExpected(prev) =>
              /\ StartMarkers(file) # {} /\ EndMarkers(file) # {}
              /\ NonBlank(RegionLines(file)) = FreshText(parse_module(prev))

\* a run on a module of one kind of debug signals raises
AbsentCoreKindRaises ==
    (step \in {"run", "rerun"} /\ OneKindAbsent(parse_module(prev)))
        => raised

\* a run on a module with an ILA signal only, and one on a module with a
\* VIO signal only
IlaOnlyRun ==
    /\ step = "run" /\ parse_module(prev).ila # <<>>
    /\ parse_module(prev).vio = <<>> /\ file # prev
VioOnlyRun ==
    /\ step = "run" /\ parse_module(prev).ila = <<>>
    /\ parse_module(prev).vio # <<>> /\ HasEndmodule(prev)

----------------------------------------------------------------------------
(* Properties of the creation of the generated region                      *)

\* the file holds no marker and no instantiation of a debug core
NoMarkers(f) == StartMarkers(f) = {} /\ EndMarkers(f) = {} /\ WellMarked(f)

\* in file g the lines before line e of f are those of f, followed by the
\* start marker, the instantiation text of the cores c, the end marker and
\* line e of f
RegionCreatedAt(g, f, e, c) ==
    /\ Len(g) > e
    /\ SubSeq(g, 1, e - 1) = SubSeq(f, 1, e - 1)
    /\ IsStartMarker(g[e])
    /\ \E k \in (e + 1)..(Len(g) - 1) :
          /\ IsEndMarker(g[k])
          /\ g[k + 1] = f[e]
          /\ NonBlank(SubSeq(g, e + 1, k - 1)) = FreshText(c)

\* C14: a run on a module file without markers, whose module declares ILA
\* and VIO signals, creates the start marker, the instantiations and the
\* end marker immediately before the 'endmodule' line, for every line that
\* update_instantiation takes for the 'endmodule' line: followed by a
\* newline, by a comment, or by nothing at the end of the file.
C14_RegionCreatedBeforeEndmodule ==
    (/\ step \in {"run", "rerun"}
     /\ NoMarkers(prev)
     /\ parse_module(prev).ila # <<>> /\ parse_module(prev).vio # <<>>
     /\ \E i \in 1..Len(prev) : re_module_inst_sv_end_module(prev[i])) =>
        RegionCreatedAt(file, prev, FirstEndmodule(prev), parse_module(prev))

\* the region is created before an 'endmodule' line that is followed by
\* whitespace
RegionCreatedBeforeEndmoduleSpace ==
    (HasEndmodule(prev) /\ match_endmodule(prev[FirstEndmodule(prev)]))
        => C14_RegionCreatedBeforeEndmodule

\* a run that created the region before 'endmodule // <comment>'
RegionCreatedBeforeComment ==
    /\ step = "run" /\ NoMarkers(prev) /\ ~raised
    /\ HasEndmodule(prev) /\ prev[FirstEndmodule(prev)] = D_endmodule_cmt
    /\ RegionCreatedAt(file, prev, FirstEndmodule(prev), parse_module(prev))

----------------------------------------------------------------------------
(* HdlPort: the port recognizer                                            *)

port_directions == {"input", "output", "inout"}

\* the number of characters of a whitespace token
WsLen(t) ==
    CASE t \in {" ", "\n"} -> 1
      [] t = "  "          -> 2
      [] t = "    "        -> 4
      [] t = Pad13         -> 13
      [] t = Pad14         -> 14
      [] t = Pad20         -> 20
      [] OTHER             -> 0

\* the number of whitespace characters from position i
RECURSIVE WsCount(_, _)
WsCount(l, i) ==
    IF IsWs(At(l, i)) THEN WsLen(At(l, i)) + WsCount(l, i + 1) ELSE 0

\* [\w+\+\-\*\/]* from position i
RECURSIVE SkipDimChars(_, _)
SkipDimChars(l, i) ==
    IF IsWord(At(l, i)) \/ At(l, i) \in {"+", "-", "*", "/"}
    THEN SkipDimChars(l, i + 1) ELSE i

\* the ']' of __re_sig_single_dim_sv for the ':' at position a: the position
\* after it, 0 without a match
single_dim_close(l, a) ==
    IF SkipDimChars(l, a + 1) > a + 1 /\ At(l, SkipDimChars(l, a + 1)) = "]"
    THEN SkipDimChars(l, a + 1) + 1 ELSE 0

\* __re_sig_single_dim_sv at position i: the position after the match, 0
\* without a match
single_dim_end(l, i) ==
    IF /\ At(l, i) = "["
       /\ SkipDimChars(l, i + 1) > i + 1
       /\ At(l, SkipDimChars(l, i + 1)) = ":"
    THEN single_dim_close(l, SkipDimChars(l, i + 1)) ELSE 0

\* __re_sig_multi_dim_sv from position i: the position after the last
\* repetition
RECURSIVE multi_dim_end(_, _)
multi_dim_end(l, i) ==
    IF single_dim_end(l, i) = 0 THEN i
    ELSE multi_dim_end(l, single_dim_end(l, i))

\* re.findall(__re_sig_single_dim_sv, group) for the group from i to e - 1
RECURSIVE dims_findall(_, _, _)
dims_findall(l, i, e) ==
    IF i >= e THEN <<>>
    ELSE <<SubSeq(l, i, single_dim_end(l, i) - 1)>>
         \o dims_findall(l, single_dim_end(l, i), e)

\* HdlPort.__from_port_decl_mo for a match with direction d, group 4 from j
\* to p - 1, group 6 from n to ne - 1 and group 7 from u
port_of(l, d, j, p, n, ne, u) ==
    << [name       |-> SubSeq(l, n, ne - 1),
        width      |-> -1,
        direction  |-> d,
        dimensions |-> [packed   |-> dims_findall(l, j, p),
                        unpacked |-> dims_findall(l, u, multi_dim_end(l, u))]] >>

\* (\w+)\s* and what follows: the name from position n; everything after
\* the name matches the empty string too
port_decl_name(l, d, j, p, n) ==
    IF SkipWord(l, n) > n
    THEN port_of(l, d, j, p, n, SkipWord(l, n), SkipWs(l, SkipWord(l, n)))
    ELSE <<>>

\* the pattern from group 4 on, at position j; with fewer repetitions of the
\* dimension than the greedy match a '[' stands where the name has to
port_decl_dims(l, d, j) ==
    port_decl_name(l, d, j, multi_dim_end(l, j),
                   SkipWs(l, multi_dim_end(l, j)))

\* ((logic|reg|wire){0,1}\s+) at position w, after \s+ matched c characters
\* of whitespace: first with the keyword; without it the whitespace is
\* shared by the two \s+, which need a character each
port_decl_storage(l, d, w, c) ==
    IF /\ At(l, w) \in {"logic", "reg", "wire"} /\ IsWs(At(l, w + 1))
       /\ port_decl_dims(l, d, SkipWs(l, w + 1)) # <<>>
    THEN port_decl_dims(l, d, SkipWs(l, w + 1))
    ELSE IF c >= 2 THEN port_decl_dims(l, d, w)
    ELSE <<>>

\* HdlPort.from_sv(line): <<>> for None, else <<port>>
HdlPort_from_sv(line) ==
    IF /\ At(line, SkipWs(line, 1)) \in port_directions
       /\ IsWs(At(line, SkipWs(line, 1) + 1))
    THEN port_decl_storage(line, At(line, SkipWs(line, 1)),
                           SkipWs(line, SkipWs(line, 1) + 1),
                           WsCount(line, SkipWs(line, 1) + 1))
    ELSE <<>>

----------------------------------------------------------------------------
(* Lines given to the port recognizer: a direction, whitespace, a storage  *)
(* keyword or none, packed dimensions, a name, unpacked dimensions and a   *)
(* comma or none; a dimension may lack its ']'.                            *)

Dim70     == <<"[", "7", ":", "0", "]">>
Dim31     == <<"[", "3", ":", "1", "]">>
DimN      == <<"[", "N", "-", "1", ":", "0", "]">>
DimOpen70 == <<"[", "7", ":", "0">>
DimOpen31 == <<"[", "3", ":", "1">>

P_gap      == {<<" ">>, <<" ", " ">>}
P_storage  == {<<>>, <<"logic", " ">>, <<"wire", " ">>}
P_packed   == {<<>>, Dim70, DimN, Dim70 \o Dim31, DimOpen70,
               Dim70 \o DimOpen31}
P_space    == {<<>>, <<" ">>}
P_name     == {<<"clk">>, <<"data_in">>}
P_unpacked == {<<>>, Dim31, DimOpen31}
P_tail     == {<<"\n">>, <<",", "\n">>}

PortLines ==
    {<<d>> \o g \o st \o pk \o s1 \o n \o s2 \o up \o t :
        d \in port_directions, g \in P_gap, st \in P_storage,
        pk \in P_packed, s1 \in P_space, n \in P_name, s2 \in P_space,
        up \in P_unpacked, t \in P_tail}

InitPort ==
    /\ file \in {<<l>> : l \in PortLines}
    /\ orig = file
    /\ prev = file
    /\ runs = 0
    /\ raised = FALSE
    /\ step = "init"
    /\ ports = <<>>
    /\ no_create = FALSE
    /\ registry = <<>>
    /\ xips = <<>>
    /\ ret = <<>>

PortFromSv ==
    /\ step = "init"
    /\ ret' = HdlPort_from_sv(file[1])
    /\ step' = "run"
    /\ runs' = runs + 1
    /\ UNCHANGED <<file, orig, prev, raised, ports, no_create, registry, xips>>

NextPort == PortFromSv

SpecPort == InitPort /\ [][NextPort]_vars

----------------------------------------------------------------------------
(* HdlModuleInterface.from_sv                                              *)

\* 'module\s+(\w+)\s*' at the start of the line: the position after it, 0
\* without a match
module_decl_name_end(line) ==
    IF /\ At(line, SkipWs(line, 1)) = "module"
       /\ IsWs(At(line, SkipWs(line, 1) + 1))
       /\ IsWord(At(line, SkipWs(line, SkipWs(line, 1) + 1)))
    THEN SkipWs(line, SkipWord(line, SkipWs(line, SkipWs(line, 1) + 1)))
    ELSE 0

\* group 1 of the two patterns of the begin of a module declaration
module_decl_name(line) ==
    SubSeq(line, SkipWs(line, SkipWs(line, 1) + 1),
           SkipWord(line, SkipWs(line, SkipWs(line, 1) + 1)) - 1)

\* __re_begin_module_decl_sv_no_param.match(line)
re_begin_module_decl_sv_no_param(line) ==
    /\ module_decl_name_end(line) # 0
    /\ At(line, module_decl_name_end(line)) = "("

\* __re_begin_module_decl_sv_param.match(line)
re_begin_module_decl_sv_param(line) ==
    /\ module_decl_name_end(line) # 0
    /\ At(line, module_decl_name_end(line)) = "#"
    /\ At(line, module_decl_name_end(line) + 1) = "("

\* __re_module_decl_sv_param_end.match(line)
re_module_decl_sv_param_end(line) ==
    /\ At(line, SkipWs(line, 1)) = ")"
    /\ At(line, SkipWs(line, SkipWs(line, 1) + 1)) = "("

\* __re_module_decl_sv_end.match(line)
re_module_decl_sv_end(line) ==
    /\ At(line, SkipWs(line, 1)) = ")"
    /\ At(line, SkipWs(line, SkipWs(line, 1) + 1)) = ";"

\* the local variables before the loop over the lines; module_name and
\* l_module_ports are unbound until a declaration begins
from_sv_init ==
    [in_ports_decl  |-> FALSE,
     in_param_decl  |-> FALSE,
     module_name    |-> <<>>,
     l_module_ports |-> <<>>,
     returned       |-> FALSE]

\* the second match of branch 'if not in_ports_decl and not in_param_decl'
from_sv_begin_param(st, line) ==
    IF re_begin_module_decl_sv_param(line)
    THEN [st EXCEPT !.in_param_decl  = TRUE,
                    !.module_name    = module_decl_name(line),
                    !.l_module_ports = <<>>]
    ELSE st

\* branch 'if not in_ports_decl and not in_param_decl'
from_sv_begin(st, line) ==
    IF re_begin_module_decl_sv_no_param(line)
    THEN from_sv_begin_param(
             [st EXCEPT !.in_ports_decl  = TRUE,
                        !.module_name    = module_decl_name(line),
                        !.l_module_ports = <<>>], line)
    ELSE from_sv_begin_param(st, line)

\* branch 'else': the end of the declaration, or a port
from_sv_ports(st, line) ==
    IF re_module_decl_sv_end(line)
    THEN [st EXCEPT !.in_ports_decl = FALSE, !.returned = TRUE]
    ELSE [st EXCEPT !.l_module_ports = @ \o HdlPort_from_sv(line)]

\* a variant of branch 'elif in_param_decl' that reads the parameter list
\* as a port list
from_sv_param_as_ports(st, line) ==
    IF re_module_decl_sv_param_end(line)
    THEN [st EXCEPT !.in_param_decl = FALSE, !.in_ports_decl = TRUE]
    ELSE from_sv_ports(st, line)

\* branch 'elif in_param_decl'
from_sv_param(st, line) ==
    IF re_module_decl_sv_param_end(line)
    THEN [st EXCEPT !.in_param_decl = FALSE, !.in_ports_decl = TRUE]
    ELSE st

\* the body of 'for line in l_lines'
from_sv_step(st, line) ==
    IF ~st.in_ports_decl /\ ~st.in_param_decl THEN from_sv_begin(st, line)
    ELSE IF st.in_param_decl THEN from_sv_param(st, line)
    ELSE from_sv_ports(st, line)

\* a variant of the iteration that goes on after the return
from_sv_no_return(st, line) == from_sv_step(st, line)

\* one iteration of 'for line in l_lines': no iteration after the return
from_sv_line(st, line) ==
    IF st.returned THEN st ELSE from_sv_step(st, line)

\* the loop over the first n lines
RECURSIVE from_sv_lines(_, _)
from_sv_lines(l_lines, n) ==
    IF n = 0 THEN from_sv_init
    ELSE from_sv_line(from_sv_lines(l_lines, n - 1), l_lines[n])

\* a variant of from_sv_return that returns the ports read so far when the
\* input ends inside the port list
from_sv_return_at_end(st) ==
    IF st.returned \/ st.in_ports_decl
    THEN <<[name |-> st.module_name, ports |-> st.l_module_ports]>>
    ELSE <<>>

\* the value returned after the loop ended in state st
from_sv_return(st) ==
    IF st.returned
    THEN <<[name |-> st.module_name, ports |-> st.l_module_ports]>>
    ELSE <<>>

\* HdlModuleInterface.from_sv(declaration) for a list of lines: <<>> for
\* None, else <<interface>>
from_sv(l_lines) == from_sv_return(from_sv_lines(l_lines, Len(l_lines)))

----------------------------------------------------------------------------
(* Declarations given to from_sv: every sequence of at most MaxDeclLines   *)
(* lines of SvLines.                                                       *)

V_module       == <<"module", " ", "foo", " ", "(", "\n">>
V_module_param == <<"module", " ", "bar", " ", "#", "(", "\n">>
V_param_end    == <<")", " ", "(", "\n">>
V_end          == <<")", ";", "\n">>
V_port_a       == <<"input", " ", "logic", " ", "a", ",", "\n">>
V_port_b       == <<"output", " ", "logic", " ", "[", "7", ":", "0", "]",
                    " ", "b", "\n">>
V_comment      == <<"//", " ", "c", "\n">>

SvLines == {V_module, V_module_param, V_param_end, V_end, V_port_a, V_port_b,
            V_comment}

InitDecl ==
    /\ file \in UNION {[1..n -> SvLines] : n \in 0..MaxDeclLines}
    /\ orig = file
    /\ prev = file
    /\ runs = 0
    /\ raised = FALSE
    /\ step = "init"
    /\ ports = <<>>
    /\ no_create = FALSE
    /\ registry = <<>>
    /\ xips = <<>>
    /\ ret = <<>>

FromSv ==
    /\ step = "init"
    /\ ret' = from_sv(file)
    /\ step' = "run"
    /\ runs' = runs + 1
    /\ UNCHANGED <<file, orig, prev, raised, ports, no_create, registry, xips>>

NextDecl == FromSv

SpecDecl == InitDecl /\ [][NextDecl]_vars

----------------------------------------------------------------------------
(* Properties of from_sv                                                   *)

\* 'module <name> (' or 'module <name> #('
IsModuleDecl(line) ==
    LET t == NoWs(line)
    IN  /\ Len(t) >= 3 /\ t[1] = "module" /\ IsWord(t[2])
        /\ t[3] = "(" \/ (Len(t) >= 4 /\ t[3] = "#" /\ t[4] = "(")

IsParamDecl(line) == IsModuleDecl(line) /\ NoWs(line)[3] = "#"

\* the line starts with the tokens a and b
StartsWith(line, a, b) ==
    Len(NoWs(line)) >= 2 /\ NoWs(line)[1] = a /\ NoWs(line)[2] = b

\* the least element of a set of line numbers, 0 for the empty set
First(S) == IF S = {} THEN 0 ELSE CHOOSE i \in S : \A j \in S : i <= j

\* the line of the first module declaration of f
DeclLine(f) == First({i \in 1..Len(f) : IsModuleDecl(f[i])})

\* the line that enters the port list: the declaration line, or the first
\* ') (' line after the declaration line of a parameterized module
PortListLine(f) ==
    IF DeclLine(f) = 0 THEN 0
    ELSE IF IsParamDecl(f[DeclLine(f)])
    THEN First({i \in (DeclLine(f) + 1)..Len(f) : StartsWith(f[i], ")", "(")})
    ELSE DeclLine(f)

\* the first terminal ') ;' line of the port list
TerminalLine(f) ==
    IF PortListLine(f) = 0 THEN 0
    ELSE First({i \in (PortListLine(f) + 1)..Len(f) :
                   StartsWith(f[i], ")", ";")})

\* the ports the recognizer accepts among the lines a..b of f, in order
RECURSIVE AcceptedPorts(_, _, _)
AcceptedPorts(f, a, b) ==
    IF a > b THEN <<>>
    ELSE HdlPort_from_sv(f[a]) \o AcceptedPorts(f, a + 1, b)

\* C15: from_sv returns an interface when the port list of the first module
\* declaration has a terminal line, and its ports are the lines the port
\* recognizer accepts between the line that enters the port list and the
\* terminal line, in order: no line before the declaration or inside the
\* parameter list adds a port, and a line that is no port is skipped.
C15_PortsOfPortListInOrder ==
    step = "run" =>
        /\ ret # <<>> <=> TerminalLine(file) # 0
        /\ ret # <<>> =>
              ret[1].ports = AcceptedPorts(file, PortListLine(file) + 1,
                                           TerminalLine(file) - 1)

\* a parameterized module with a port-shaped line in its parameter list and
\* a port in its port list
C15_Witness ==
    /\ step = "run"
    /\ file = <<V_module_param, V_port_a, V_param_end, V_port_b, V_end>>
    /\ ret # <<>>
    /\ Len(ret[1].ports) = 1 /\ ret[1].ports[1].name = <<"b">>

\* a port list in which a line that is no port stands between two ports
SkippedLineInPortList ==
    /\ step = "run"
    /\ file = <<V_module, V_port_a, V_comment, V_port_b, V_end>>
    /\ ret # <<>>
    /\ Len(ret[1].ports) = 2
    /\ ret[1].ports[1].name = <<"a">> /\ ret[1].ports[2].name = <<"b">>

\* C16: from_sv parses the first module declaration only: the interface is
\* the one of the input cut after the first terminal line, with the name of
\* the first declaration line, whatever follows the terminal line.
C16_OnlyFirstModuleParsed ==
    (step = "run" /\ TerminalLine(file) # 0) =>
        /\ ret = from_sv(SubSeq(file, 1, TerminalLine(file)))
        /\ ret # <<>>
        /\ ret[1].name = <<NoWs(file[DeclLine(file)])[2]>>

\* a port-shaped line before the declaration and one after the terminal
\* line
PortShapedLinesOutside ==
    /\ step = "run"
    /\ file = <<V_port_b, V_module, V_port_a, V_end, V_port_b>>
    /\ ret # <<>>
    /\ Len(ret[1].ports) = 1 /\ ret[1].ports[1].name = <<"a">>

\* a module declaration followed by the declaration of a second module and
\* a port-shaped line
C16_Witness ==
    /\ step = "run"
    /\ file = <<V_module, V_port_a, V_end, V_module_param, V_port_b>>
    /\ ret # <<>>
    /\ ret[1].name = <<"foo">>
    /\ Len(ret[1].ports) = 1 /\ ret[1].ports[1].name = <<"a">>

\* C17: the port names of a returned interface are pairwise distinct.
C17_PortNamesDistinct ==
    (step = "run" /\ ret # <<>>) =>
        \A i, j \in 1..Len(ret[1].ports) :
            i # j => ret[1].ports[i].name # ret[1].ports[j].name

\* the port names are distinct when no two lines of the port list declare
\* the same name
PortNamesDistinctNoRepeatedLine ==
    (\A i, j \in 1..Len(file) : i # j => file[i] # file[j]
                                         \/ HdlPort_from_sv(file[i]) = <<>>)
        => C17_PortNamesDistinct

----------------------------------------------------------------------------
(* Properties of the port recognizer.  A port line is read as its tokens   *)
(* without whitespace: a dimension starts at a '[' and is closed by the    *)
(* first ']' that follows, unless another '[' comes first.                 *)

StorageKeywords == {"logic", "reg", "wire"}

\* the position of the first bracket of t at or after position i, 0 if none
FirstBracket(t, i) ==
    First({k \in i..Len(t) : t[k] \in {"[", "]"}})

\* the position after the dimension that starts at position i of t, 0 if
\* no closed dimension starts there
ClosedDimEnd(t, i) ==
    IF /\ At(t, i) = "["
       /\ FirstBracket(t, i + 1) # 0
       /\ t[FirstBracket(t, i + 1)] = "]"
    THEN FirstBracket(t, i + 1) + 1 ELSE 0

\* the position after the closed dimensions that start at position i of t
RECURSIVE ClosedDimsEnd(_, _)
ClosedDimsEnd(t, i) ==
    IF ClosedDimEnd(t, i) = 0 THEN i ELSE ClosedDimsEnd(t, ClosedDimEnd(t, i))

\* the closed dimensions of t from position i up to position e
RECURSIVE ClosedDims(_, _, _)
ClosedDims(t, i, e) ==
    IF i >= e THEN <<>>
    ELSE <<SubSeq(t, i, ClosedDimEnd(t, i) - 1)>>
         \o ClosedDims(t, ClosedDimEnd(t, i), e)

\* the position of the first packed dimension, or of the name
PackedAt(t) == IF At(t, 2) \in StorageKeywords THEN 3 ELSE 2

\* the position of the name
NameAt(t) == ClosedDimsEnd(t, PackedAt(t))

\* direction, storage keyword or none, dimensions, name, dimensions, and
\* a comma or nothing
IsPortDecl(t) ==
    /\ At(t, 1) \in port_directions
    /\ IsWord(At(t, NameAt(t)))
    /\ At(t, NameAt(t)) \notin StorageKeywords
    /\ \/ ClosedDimsEnd(t, NameAt(t) + 1) = Len(t) + 1
       \/ /\ ClosedDimsEnd(t, NameAt(t) + 1) = Len(t)
          /\ t[Len(t)] = ","

\* the port that the port declaration t declares
PortOfDecl(t) ==
    [name       |-> <<t[NameAt(t)]>>,
     width      |-> -1,
     direction  |-> t[1],
     dimensions |->
         [packed   |-> ClosedDims(t, PackedAt(t), NameAt(t)),
          unpacked |-> ClosedDims(t, NameAt(t) + 1,
                                  ClosedDimsEnd(t, NameAt(t) + 1))]]

\* the line with the storage keyword 'logic' put after the direction
WithLogic(line) == <<line[1], " ", "logic">> \o Tail(line)

\* C18: a port declaration without storage keyword yields the port it
\* declares, as the same line with 'logic' after the direction does;
\* 'input logic [7:0] data_in,' yields data_in, input, packed [7:0].
C18_StorageKeywordOptional ==
    (step = "run" /\ IsPortDecl(NoWs(file[1]))) =>
        /\ ret = <<PortOfDecl(NoWs(file[1]))>>
        /\ NoWs(file[1])[2] \notin StorageKeywords =>
               ret = HdlPort_from_sv(WithLogic(file[1]))
        /\ file[1] = <<"input", " ", "logic", " ">> \o Dim70
                     \o <<" ", "data_in", ",", "\n">> =>
               ret = << [name       |-> <<"data_in">>,
                         width      |-> -1,
                         direction  |-> "input",
                         dimensions |-> [packed   |-> <<Dim70>>,
                                         unpacked |-> <<>>]] >>

\* a port declaration is recognized when it has a storage keyword, or two
\* characters of whitespace after the direction
StorageKeywordOrTwoSpaces ==
    (NoWs(file[1])[2] \in StorageKeywords \/ WsCount(file[1], 2) >= 2)
        => C18_StorageKeywordOptional

\* the recognizer saw a port declaration without storage keyword, with one
\* space after the direction, and returned None
OneSpaceNoStorage ==
    /\ step = "run" /\ IsPortDecl(NoWs(file[1]))
    /\ file[1] = <<"input", " ", "clk", ",", "\n">>
    /\ ret = <<>>

\* a dimension of the line lacks its ']'
HasOpenDim(t) ==
    \E i \in 1..Len(t) : t[i] = "[" /\ ClosedDimEnd(t, i) = 0

\* C19: a line with a dimension that is not closed is never accepted as a
\* port.
C19_MalformedDimensionRejected ==
    (step = "run" /\ HasOpenDim(NoWs(file[1]))) => ret = <<>>

\* a line whose packed dimensions are not closed is rejected, when the
\* direction is followed by one space
OpenPackedDimensionRejected ==
    (step = "run" /\ WsCount(file[1], 2) = 1
        /\ ClosedDimsEnd(NoWs(file[1]), PackedAt(NoWs(file[1])))
               \in {i \in 1..Len(NoWs(file[1])) : NoWs(file[1])[i] = "["})
        => ret = <<>>

\* the recognizer returned a port for a line whose unpacked dimension is
\* not closed
OpenUnpackedAccepted ==
    /\ step = "run"
    /\ file[1] = <<"input", " ", "logic", " ", "clk", " ">> \o DimOpen31
                 \o <<",", "\n">>
    /\ ret # <<>> /\ ret[1].dimensions.unpacked = <<>>

----------------------------------------------------------------------------
(* Declarations given to IlaSignal.from_str and VioSignal.from_str: a      *)
(* keyword, no dimension, a dimension of two digits or one of a symbolic   *)
(* bound, and the name of an ILA or a VIO signal.                          *)

G_keyword == {"logic", "reg", "wire"}

G_dim ==
    {<<>>, DimN \o <<" ">>}
    \cup {<<"[", DigitChar[h], ":", DigitChar[l], "]", " ">> :
             h \in 1..10, l \in 1..10}

G_signal == {<<"ila_ctrl_", "a", "_", "x", ";", "\n">>,
             <<"vio_ctrl_", "in", "_", "en", ";", "\n">>}

SigLines ==
    {<<k, " ">> \o d \o g : k \in G_keyword, d \in G_dim, g \in G_signal}

InitSig ==
    /\ file \in {<<l>> : l \in SigLines}
    /\ orig = file
    /\ prev = file
    /\ runs = 0
    /\ raised = FALSE
    /\ step = "init"
    /\ ports = <<>>
    /\ no_create = FALSE
    /\ registry = <<>>
    /\ xips = <<>>
    /\ ret = <<>>

IlaFromStr ==
    /\ step = "init"
    /\ ret' = IlaSignal_from_str(file[1])
    /\ step' = "ila"
    /\ runs' = runs + 1
    /\ UNCHANGED <<file, orig, prev, raised, ports, no_create, registry, xips>>

VioFromStr ==
    /\ step = "init"
    /\ ret' = VioSignal_from_str(file[1])
    /\ step' = "vio"
    /\ runs' = runs + 1
    /\ UNCHANGED <<file, orig, prev, raised, ports, no_create, registry, xips>>

NextSig == IlaFromStr \/ VioFromStr

SpecSig == InitSig /\ [][NextSig]_vars

----------------------------------------------------------------------------
(* Properties of the width of a debug signal                               *)

\* the number a digit stands for
DigitValue(t) ==
    CASE t = "0" -> 0 [] t = "1" -> 1 [] t = "2" -> 2 [] t = "3" -> 3
      [] t = "4" -> 4 [] t = "5" -> 5 [] t = "6" -> 6 [] t = "7" -> 7
      [] t = "8" -> 8 [] t = "9" -> 9

IsDigit(t) == t \in {"0", "1", "2", "3", "4", "5", "6", "7", "8", "9"}

\* the declaration t (without whitespace) has a dimension
HasDim(t) == At(t, 2) = "["

\* the dimension of t is [hi:lo] with hi and lo integer literals
HasLiteralDim(t) ==
    /\ HasDim(t) /\ IsDigit(At(t, 3)) /\ At(t, 4) = ":"
    /\ IsDigit(At(t, 5)) /\ At(t, 6) = "]"

\* the parser called is the one of the kind of the declared signal
OwnParser ==
    \/ step = "ila" /\ "ila_ctrl_" \in Range(file[1])
    \/ step = "vio" /\ "vio_ctrl_" \in Range(file[1])

\* C20: both parsers derive the width of a signal by one rule: [hi:lo] with
\* integer literals gives hi - lo + 1 ([7:0] gives 8, [3:1] gives 3), no
\* dimension gives 1, and a declaration with a symbolic bound is no signal.
C20_WidthDerivation ==
    OwnParser =>
        LET t == NoWs(file[1])
        IN  /\ HasLiteralDim(t) =>
                  /\ ret # <<>>
                  /\ ret[1].width
                         = DigitValue(t[3]) - DigitValue(t[5]) + 1
            /\ ~HasDim(t) => ret # <<>> /\ ret[1].width = 1
            /\ (HasDim(t) /\ ~HasLiteralDim(t)) => ret = <<>>
            /\ SubSeq(t, 2, 6) = Dim70 => ret # <<>> /\ ret[1].width = 8
            /\ SubSeq(t, 2, 6) = Dim31 => ret # <<>> /\ ret[1].width = 3

\* VioSignal.from_str returned a signal of width 3 for a declaration of
\* dimension [3:1]
C20_Witness ==
    /\ step = "vio"
    /\ file[1] = <<"reg", " ">> \o Dim31
                 \o <<" ", "vio_ctrl_", "in", "_", "en", ";", "\n">>
    /\ ret # <<>> /\ ret[1].width = 3 /\ ret[1].name = <<"en">>

\* IlaSignal.from_str returned None for a declaration of dimension [N-1:0]
SymbolicBoundNoSignal ==
    /\ step = "ila"
    /\ file[1] = <<"logic", " ">> \o DimN
                 \o <<" ", "ila_ctrl_", "a", "_", "x", ";", "\n">>
    /\ ret = <<>>

----------------------------------------------------------------------------
(* Modules given to XilinxIlaCore.from_module and                          *)
(* XilinxVioCore.from_module: lines that declare ILA signals of the groups *)
(* a and b, the clock of an ILA, VIO signals of both directions, and code. *)

MaxCoreLines == 4

K_ila_ax    == <<"logic", " ", "ila_ctrl_", "a", "_", "x", ";", "\n">>
K_ila_by    == <<"wire", " ", "[", "7", ":", "0", "]", " ", "ila_ctrl_",
                 "b", "_", "y", ";", " ", "//", " ", "trigger_type", "=",
                 "trigger", "\n">>
K_ila_az    == <<"logic", " ", "ila_ctrl_", "a", "_", "z", ";", "\n">>
K_ila_bx    == <<"reg", " ", "ila_ctrl_", "b", "_", "x", ";", "\n">>
K_ila_clk   == <<"logic", " ", "ila_ctrl_", "a", "_", "clk", ";", "\n">>
K_vio_in_en == <<"logic", " ", "vio_ctrl_", "in", "_", "en", ";", " ",
                 "//", " ", "radix", "=", "hex", " ", "init", "=", "1",
                 "\n">>
K_vio_in_d  == <<"logic", " ", "vio_ctrl_", "in", "_", "d", ";", "\n">>
K_vio_out_q == <<"reg", " ", "[", "3", ":", "0", "]", " ", "vio_ctrl_",
                 "out", "_", "q", ";", "\n">>
K_vio_out_r == <<"logic", " ", "vio_ctrl_", "out", "_", "r", ";", " ",
                 "//", " ", "init", "=", "0", "\n">>

CoreLines == {K_ila_ax, K_ila_by, K_ila_az, K_ila_bx, K_ila_clk,
              K_vio_in_en, K_vio_in_d, K_vio_out_q, K_vio_out_r, L_code}

InitCore ==
    /\ file \in UNION {[1..n -> CoreLines] : n \in 1..MaxCoreLines}
    /\ orig = file
    /\ prev = file
    /\ runs = 0
    /\ raised = FALSE
    /\ step = "init"
    /\ ports = <<>>
    /\ no_create = FALSE
    /\ registry = <<>>
    /\ xips = <<>>
    /\ ret = <<>>

\* l_ila_cores = XilinxIlaCore.from_module(s_module_file_name)
IlaFromModule ==
    /\ step = "init"
    /\ ret' = XilinxIlaCore_from_module(file)
    /\ step' = "ila"
    /\ runs' = runs + 1
    /\ UNCHANGED <<file, orig, prev, raised, ports, no_create, registry, xips>>

\* vio_core = XilinxVioCore.from_module(s_module_file_name); ret holds the
\* signals of the core
VioFromModule ==
    /\ step = "init"
    /\ ret' = XilinxVioCore_from_module(file)
    /\ step' = "vio"
    /\ runs' = runs + 1
    /\ UNCHANGED <<file, orig, prev, raised, ports, no_create, registry, xips>>

\* ila_core.generate_ip_declaration() for one of the cores found; ret holds
\* that core, xips the lines returned
IlaGenerateIpDeclaration ==
    /\ step = "ila"
    /\ \E c \in 1..Len(ret) :
           /\ xips' = XilinxIlaCore_generate_ip_declaration(ret[c])
           /\ ret' = <<ret[c]>>
    /\ step' = "ila_decl"
    /\ UNCHANGED <<file, orig, prev, runs, raised, ports, no_create, registry>>

\* vio_core.generate_ip_declaration(); xips holds the lines returned
VioGenerateIpDeclaration ==
    /\ step = "vio"
    /\ ret # <<>>
    /\ xips' = XilinxVioCore_generate_ip_declaration(ret)
    /\ step' = "vio_decl"
    /\ UNCHANGED <<file, orig, prev, runs, raised, ports, no_create, registry,
                   ret>>

NextCore ==
    \/ IlaFromModule
    \/ VioFromModule
    \/ IlaGenerateIpDeclaration
    \/ VioGenerateIpDeclaration

SpecCore == InitCore /\ [][NextCore]_vars

----------------------------------------------------------------------------
(* Properties of the indices of the debug signals                          *)

\* the declarations of ILA signals of a module, in order: the group and the
\* name written after ila_ctrl_; the clock of an ILA is no signal
IsIlaDecl(line) ==
    \E k \in 1..Len(line) :
        /\ line[k] = "ila_ctrl_" /\ At(line, k + 2) = "_"
        /\ At(line, k + 3) # "clk"

IlaGroupOf(line) ==
    line[(CHOOSE k \in 1..Len(line) : line[k] = "ila_ctrl_") + 1]

IlaNameOf(line) ==
    line[(CHOOSE k \in 1..Len(line) : line[k] = "ila_ctrl_") + 3]

IlaDecls(f) == SelectSeq(f, IsIlaDecl)

\* the groups of the declarations d in the order of their first occurrence
RECURSIVE FirstSeen(_)
FirstSeen(d) ==
    IF d = <<>> THEN <<>>
    ELSE LET r == FirstSeen(SubSeq(d, 1, Len(d) - 1))
             g == IlaGroupOf(d[Len(d)])
         IN  IF g \in Range(r) THEN r ELSE Append(r, g)

\* the declarations of group g, in order
DeclsOfGroup(d, g) == SelectSeq(d, LAMBDA l : IlaGroupOf(l) = g)

\* C21: XilinxIlaCore.from_module lists the cores in the order in which
\* their group names are first seen; the signals of a core are the
\* declarations of its group in order, and the index of each is its
\* position within the group, counted from 0 (a_x, b_y, a_z gives
\* a: [x(0), z(1)], b: [y(0)])
C21_IlaIndexWithinGroup ==
    step = "ila" =>
        LET d  == IlaDecls(file)
            gs == FirstSeen(d)
        IN  /\ Len(ret) = Len(gs)
            /\ \A c \in 1..Len(ret) :
                   LET dg == DeclsOfGroup(d, gs[c])
                   IN  /\ ret[c].name = <<gs[c]>>
                       /\ Len(ret[c].signals) = Len(dg)
                       /\ \A i \in 1..Len(dg) :
                              /\ ret[c].signals[i].name = <<IlaNameOf(dg[i])>>
                              /\ ret[c].signals[i].ila_name = <<gs[c]>>
                              /\ ret[c].signals[i].index = i - 1

\* the declarations a_x, b_y, a_z gave the cores a: [x(0), z(1)], b: [y(0)]
C21_Witness ==
    /\ step = "ila"
    /\ file = <<K_ila_ax, K_ila_by, K_ila_az>>
    /\ Len(ret) = 2
    /\ [i \in 1..2 |-> ret[1].signals[i].index] = <<0, 1>>
    /\ [i \in 1..2 |-> ret[1].signals[i].name] = << <<"x">>, <<"z">> >>
    /\ Len(ret[2].signals) = 1
    /\ ret[2].signals[1].index = 0 /\ ret[2].signals[1].name = <<"y">>

\* the declarations of VIO signals of a module, in order: the direction and
\* the name written after vio_ctrl_
IsVioDecl(line) ==
    \E k \in 1..Len(line) :
        /\ line[k] = "vio_ctrl_" /\ At(line, k + 1) \in {"in", "out"}
        /\ At(line, k + 2) = "_"

VioDirectionOf(line) ==
    line[(CHOOSE k \in 1..Len(line) : line[k] = "vio_ctrl_") + 1]

VioNameOf(line) ==
    line[(CHOOSE k \in 1..Len(line) : line[k] = "vio_ctrl_") + 3]

VioDecls(f) == SelectSeq(f, IsVioDecl)

\* the number of the declarations before the i-th that have its direction
EarlierOfDirection(d, i) ==
    Cardinality({j \in 1..(i - 1) :
                     VioDirectionOf(d[j]) = VioDirectionOf(d[i])})

\* C22: XilinxVioCore.from_module puts all VIO signals of the module, in
\* the order of their declaration, into one core, and the index of a signal
\* is the number of earlier signals of its direction, whatever the
\* interleaving of the directions; so the indices of a direction are
\* 0..k-1 in the order of discovery
C22_VioIndexWithinDirection ==
    step = "vio" =>
        LET d == VioDecls(file)
        IN  /\ Len(ret) = Len(d)
            /\ \A i \in 1..Len(d) :
                   /\ ret[i].name = <<VioNameOf(d[i])>>
                   /\ ret[i].direction = VioDirectionOf(d[i])
                   /\ ret[i].index = EarlierOfDirection(d, i)
            /\ \A dir \in {"in", "out"} :
                   [i \in 1..Len(signals_of(ret, dir)) |->
                        signals_of(ret, dir)[i].index]
                   = [i \in 1..Len(signals_of(ret, dir)) |-> i - 1]

\* the declarations in, out, in, out gave one core with the indices
\* 0, 0, 1, 1
C22_Witness ==
    /\ step = "vio"
    /\ file = <<K_vio_in_en, K_vio_out_q, K_vio_in_d, K_vio_out_r>>
    /\ [i \in 1..4 |-> ret[i].index] = <<0, 0, 1, 1>>
    /\ [i \in 1..4 |-> ret[i].direction] = <<"in", "out", "in", "out">>

----------------------------------------------------------------------------
(* Declarations with names and comments given to IlaSignal.from_str and    *)
(* VioSignal.from_str: names with and without underscore, the clock of an  *)
(* ILA, and comments that hold none, one or both of the two fields, in the *)
(* documented order or reversed.                                           *)

M_keyword == {"logic", "wire"}

M_dim == {<<>>, Dim70 \o <<" ">>}

M_ila_name == {<<"a", "_", "x">>, <<"a", "_", "x", "_", "y">>,
               <<"a", "_", "clk">>, <<"a", "_", "b", "_", "clk">>}

M_vio_name == {<<"in", "_", "enable">>, <<"out", "_", "enable">>}

\* the fields f1 and f2 of a comment, separated by a space
M_fields(f1, f2) ==
    IF f1 # <<>> /\ f2 # <<>> THEN f1 \o <<" ">> \o f2 ELSE f1 \o f2

\* no comment, or a comment with the optional fields key1=v1 key2=v2, or
\* with both fields in the other order
M_comment(key1, values1, key2, values2) ==
    {<<>>}
    \cup {<<" ", "//", " ">> \o M_fields(f1, f2) :
             f1 \in {<<>>} \cup {<<key1, "=", v>> : v \in values1},
             f2 \in {<<>>} \cup {<<key2, "=", v>> : v \in values2}}
    \cup {<<" ", "//", " ">>
              \o M_fields(<<key2, "=", v2>>, <<key1, "=", v1>>) :
             v1 \in values1, v2 \in values2}

M_trigger_types == {"data", "trigger", "both", "foo"}

MetaLines ==
    {<<k, " ">> \o d \o <<"ila_ctrl_">> \o n \o <<";">> \o c \o <<"\n">> :
         k \in M_keyword, d \in M_dim, n \in M_ila_name,
         c \in M_comment("trigger_type", M_trigger_types,
                         "comparators", {"2"})}
    \cup
    {<<k, " ">> \o d \o <<"vio_ctrl_">> \o n \o <<";">> \o c \o <<"\n">> :
         k \in M_keyword, d \in M_dim, n \in M_vio_name,
         c \in M_comment("radix", {"hex", "bin"}, "init", {"1", "ff"})}

InitMeta ==
    /\ file \in {<<l>> : l \in MetaLines}
    /\ orig = file
    /\ prev = file
    /\ runs = 0
    /\ raised = FALSE
    /\ step = "init"
    /\ ports = <<>>
    /\ no_create = FALSE
    /\ registry = <<>>
    /\ xips = <<>>
    /\ ret = <<>>

SpecMeta == InitMeta /\ [][NextSig]_vars

----------------------------------------------------------------------------
(* Properties of the names and the comment fields of a debug signal        *)

\* the tokens of the declaration between lit and the ';'
DeclaredName(line, lit) ==
    LET k == CHOOSE i \in 1..Len(line) : line[i] = lit
        s == CHOOSE i \in 1..Len(line) : line[i] = ";"
    IN  SubSeq(line, k + 1, s - 1)

\* the declaration is the one of the clock of an ILA: ila_ctrl_<group>_clk
IsIlaClock(line) ==
    /\ "ila_ctrl_" \in Range(line)
    /\ Len(DeclaredName(line, "ila_ctrl_")) = 3
    /\ DeclaredName(line, "ila_ctrl_")[3] = "clk"

\* the comment of the declaration without whitespace, <<>> if there is none
CommentOf(line) ==
    IF "//" \in Range(line)
    THEN NoWs(SubSeq(line,
                     (CHOOSE i \in 1..Len(line) : line[i] = "//") + 1,
                     Len(line)))
    ELSE <<>>

\* the comment t holds its fields in the documented order key1 then key2
InFormat(t, key1, key2) ==
    \/ t = <<>>
    \/ Len(t) = 3 /\ t[1] \in {key1, key2}
    \/ Len(t) = 6 /\ t[1] = key1 /\ t[4] = key2

\* the value of the field key of the comment t, <<>> if the field is absent
FieldOf(t, key) ==
    IF \E i \in 1..Len(t) : t[i] = key
    THEN <<t[(CHOOSE i \in 1..Len(t) : t[i] = key) + 2]>>
    ELSE <<>>

\* C23: the group name and the name of every signal that IlaSignal.from_str
\* returns consist of alphanumeric characters only; a declaration whose
\* name part holds an underscore is no ILA signal
C23_IlaNamesAlphanumeric ==
    (step = "ila" /\ "ila_ctrl_" \in Range(file[1])) =>
        /\ ret # <<>> =>
               /\ "_" \notin Range(ret[1].ila_name)
               /\ "_" \notin Range(ret[1].name)
        /\ "_" \in Range(SubSeq(DeclaredName(file[1], "ila_ctrl_"), 3,
                                Len(DeclaredName(file[1], "ila_ctrl_"))))
               => ret = <<>>

\* the group name of a signal that IlaSignal.from_str returns holds no
\* underscore: it is the text between ila_ctrl_ and the next underscore
IlaGroupAlphanumeric ==
    (step = "ila" /\ ret # <<>>) =>
        /\ "_" \notin Range(ret[1].ila_name)
        /\ ret[1].ila_name = <<DeclaredName(file[1], "ila_ctrl_")[1]>>

\* IlaSignal.from_str returned a signal of name x_y for ila_ctrl_a_x_y
UnderscoreNameAccepted ==
    /\ step = "ila"
    /\ file[1] = <<"logic", " ", "ila_ctrl_", "a", "_", "x", "_", "y", ";",
                   "\n">>
    /\ ret # <<>> /\ ret[1].name = <<"x", "_", "y">>
    /\ ret[1].ila_name = <<"a">>

\* C24: the clock of an ILA is never a signal: for every declaration of
\* ila_ctrl_<group>_clk, with or without a dimension before the name,
\* IlaSignal.from_str returns None, and no signal it returns is named clk
C24_IlaClockNeverSignal ==
    step = "ila" =>
        /\ IsIlaClock(file[1]) => ret = <<>>
        /\ ret # <<>> => ret[1].name # <<"clk">>

\* IlaSignal.from_str returns None for the declaration of the clock of an
\* ILA that has no dimension
IlaClockWithoutDimensionExcluded ==
    (step = "ila" /\ IsIlaClock(file[1]) /\ "[" \notin Range(file[1]))
        => ret = <<>>

\* IlaSignal.from_str returned a signal of name clk for the declaration of
\* a clock with a dimension
IlaClockWithDimensionAccepted ==
    /\ step = "ila"
    /\ file[1] = <<"logic", " ">> \o Dim70
                 \o <<" ", "ila_ctrl_", "a", "_", "clk", ";", "\n">>
    /\ ret # <<>> /\ ret[1].name = <<"clk">> /\ ret[1].width = 8

\* the line declares an ILA signal, not the clock, and its comment, if any,
\* holds the fields in the documented order
IsIlaSignalDecl(line) ==
    /\ "ila_ctrl_" \in Range(line)
    /\ ~IsIlaClock(line)
    /\ InFormat(CommentOf(line), "trigger_type", "comparators")

\* C25: an ILA declaration without comment, or without the field
\* trigger_type in it, is a signal of trigger type both, for which the
\* declaration of the core emits the type code of both (0); without the
\* field comparators the number of comparators is 1
C25_IlaCommentDefaults ==
    (step = "ila" /\ IsIlaSignalDecl(file[1])) =>
        /\ ret # <<>>
        /\ FieldOf(CommentOf(file[1]), "trigger_type") = <<>> =>
               /\ ret[1].trigger_type = <<"both">>
               /\ trigger_type_xilinx_id(ret[1]) = 0
        /\ FieldOf(CommentOf(file[1]), "comparators") = <<>> =>
               ret[1].num_comparators = <<"1">>

\* what IlaSignal.from_str does without the fields: the declaration is a
\* signal, its trigger type is None, for which the type code is 2, and its
\* number of comparators is 1; a field that is present is stored as given
IlaCommentDefaultsNoTriggerType ==
    (step = "ila" /\ IsIlaSignalDecl(file[1])) =>
        /\ ret # <<>>
        /\ ret[1].trigger_type = FieldOf(CommentOf(file[1]), "trigger_type")
        /\ FieldOf(CommentOf(file[1]), "trigger_type") = <<>> =>
               trigger_type_xilinx_id(ret[1]) = 2
        /\ ret[1].num_comparators
               = IF FieldOf(CommentOf(file[1]), "comparators") = <<>>
                 THEN <<"1">>
                 ELSE FieldOf(CommentOf(file[1]), "comparators")

\* IlaSignal.from_str returned a signal without trigger type for a
\* declaration without comment
IlaNoCommentNoTriggerType ==
    /\ step = "ila"
    /\ file[1] = <<"logic", " ", "ila_ctrl_", "a", "_", "x", ";", "\n">>
    /\ ret # <<>> /\ ret[1].trigger_type = <<>>
    /\ trigger_type_xilinx_id(ret[1]) = 2
    /\ ret[1].num_comparators = <<"1">>

\* the line declares a VIO signal and its comment, if any, holds the
\* fields in the documented order: // radix=<radix> init=<val>
IsVioSignalDecl(line) ==
    /\ "vio_ctrl_" \in Range(line)
    /\ InFormat(CommentOf(line), "radix", "init")

\* C26: the fields radix and init of the comment of a VIO declaration are
\* optional independently of each other and never prevent the match; a
\* radix is stored in upper case, an absent one as the empty string, an
\* init as given, an absent one as no value ('logic vio_ctrl_in_enable;
\* // radix=hex init=1' gives name enable, direction in, width 1, radix
\* HEX, init 1)
C26_VioCommentFields ==
    (step = "vio" /\ IsVioSignalDecl(file[1])) =>
        LET t == CommentOf(file[1])
        IN  /\ ret # <<>>
            /\ ret[1].name = <<"enable">>
            /\ FieldOf(t, "radix") = <<"hex">> => ret[1].radix = <<"HEX">>
            /\ FieldOf(t, "radix") = <<"bin">> => ret[1].radix = <<"BIN">>
            /\ FieldOf(t, "radix") = <<>> => ret[1].radix = <<>>
            /\ ret[1].init = FieldOf(t, "init")
            /\ file[1] = <<"logic", " ", "vio_ctrl_", "in", "_", "enable",
                           ";", " ", "//", " ", "radix", "=", "hex", " ",
                           "init", "=", "1", "\n">>
                   => /\ ret[1].direction = "in" /\ ret[1].width = 1
                      /\ ret[1].radix = <<"HEX">> /\ ret[1].init = <<"1">>

\* VioSignal.from_str returned the signal enable of direction in, width 1,
\* radix HEX and init 1
C26_Witness ==
    /\ step = "vio"
    /\ file[1] = <<"logic", " ", "vio_ctrl_", "in", "_", "enable", ";", " ",
                   "//", " ", "radix", "=", "hex", " ", "init", "=", "1",
                   "\n">>
    /\ ret = << [name |-> <<"enable">>, init |-> <<"1">>, index |-> 0,
                 width |-> 1, radix |-> <<"HEX">>, direction |-> "in"] >>

\* VioSignal.from_str returned a signal without radix and without init for
\* a comment that holds only the field init, and the other way round
VioOneFieldOnly ==
    /\ step = "vio"
    /\ \/ /\ CommentOf(file[1]) = <<"init", "=", "ff">>
          /\ ret # <<>> /\ ret[1].radix = <<>> /\ ret[1].init = <<"ff">>
       \/ /\ CommentOf(file[1]) = <<"radix", "=", "bin">>
          /\ ret # <<>> /\ ret[1].radix = <<"BIN">> /\ ret[1].init = <<>>

\* a comment with the fields in the other order, init=<val> radix=<radix>,
\* is outside the format: the declaration is a signal, with the init, and
\* the radix is not read
VioReversedFields ==
    (/\ step = "vio" /\ "vio_ctrl_" \in Range(file[1])
     /\ ~InFormat(CommentOf(file[1]), "radix", "init"))
        => /\ ret # <<>>
           /\ ret[1].init = FieldOf(CommentOf(file[1]), "init")
           /\ ret[1].radix = <<>>

\* C27: a declaration of an ILA signal whose comment holds a trigger_type
\* outside data, trigger, both aborts the parsing with an error, so the
\* trigger type of every signal that IlaSignal.from_str returns is one of
\* data, trigger, both
C27_InvalidTriggerTypeFatal ==
    (step = "ila" /\ IsIlaSignalDecl(file[1])) =>
        /\ FieldOf(CommentOf(file[1]), "trigger_type")
               \notin {<<>>, <<"data">>, <<"trigger">>, <<"both">>}
               => raised /\ ret = <<>>
        /\ ret # <<>>
               => ret[1].trigger_type
                      \in {<<"data">>, <<"trigger">>, <<"both">>}

\* a trigger type of the three is stored as given, with its type code
ValidTriggerTypeKept ==
    (/\ step = "ila" /\ IsIlaSignalDecl(file[1])
     /\ FieldOf(CommentOf(file[1]), "trigger_type")
            \in {<<"data">>, <<"trigger">>, <<"both">>})
        => /\ ~raised /\ ret # <<>>
           /\ ret[1].trigger_type
                  = FieldOf(CommentOf(file[1]), "trigger_type")
           /\ trigger_type_xilinx_id(ret[1])
                  = CASE ret[1].trigger_type = <<"both">> -> 0
                      [] ret[1].trigger_type = <<"trigger">> -> 1
                      [] ret[1].trigger_type = <<"data">> -> 2

\* IlaSignal.from_str returned a signal of trigger type foo, without an
\* error
InvalidTriggerTypeAccepted ==
    /\ step = "ila"
    /\ file[1] = <<"logic", " ", "ila_ctrl_", "a", "_", "x", ";", " ", "//",
                   " ", "trigger_type", "=", "foo", "\n">>
    /\ ~raised
    /\ ret # <<>> /\ ret[1].trigger_type = <<"foo">>
    /\ trigger_type_xilinx_id(ret[1]) = 2

----------------------------------------------------------------------------
(* The signal registry over runs for several modules: each run derives the *)
(* VIO core of one module from its file and writes the list of its signals *)
(* into the registry.                                                      *)

MaxRegRuns == 3

RegModules == {"top", "sub", "alu"}

\* the files of the modules: one or two declarations of VIO signals
RegFiles ==
    UNION {[1..n -> {K_vio_in_en, K_vio_out_q}] : n \in 1..2}

InitReg ==
    /\ file \in RegFiles
    /\ orig = file
    /\ prev = file
    /\ runs = 0
    /\ raised = FALSE
    /\ step = "init"
    /\ ports = <<>>
    /\ no_create = FALSE
    /\ registry \in {<<>>, <<OtherEntry>>}
    /\ xips = <<>>
    /\ ret = <<>>

\* vio_core = XilinxVioCore.from_module(<file of module m>);
\* vio_core.write_json_sig_list(...): ret holds the core
WriteJsonSigList ==
    /\ runs < MaxRegRuns
    /\ \E m \in RegModules, f \in RegFiles :
           /\ file' = f
           /\ ret' = <<[module_name |-> m,
                        signals     |-> XilinxVioCore_from_module(f)]>>
           /\ registry' = write_json_sig_list_of(
                              registry, m, XilinxVioCore_from_module(f))
    /\ prev' = file
    /\ runs' = runs + 1
    /\ step' = "json"
    /\ UNCHANGED <<orig, raised, ports, no_create, xips>>

NextReg == WriteJsonSigList

SpecReg == InitReg /\ [][NextReg]_vars

----------------------------------------------------------------------------
(* Properties of the signal registry                                       *)

\* the entries of the registry reg for the module m
EntriesOf(reg, m) == SelectSeq(reg, LAMBDA e : e.module = m)

\* the modules that were or may be written to the registry
AllRegModules == RegModules \cup {OtherEntry.module}

\* the records of the VIO signals that the lines f declare, in order, with
\* the index of each within its direction
FreshRecords(f) ==
    LET d == VioDecls(f)
    IN  [i \in 1..Len(d) |->
            [name      |-> <<VioNameOf(d[i])>>,
             direction |-> VioDirectionOf(d[i]),
             index     |-> EarlierOfDirection(d, i),
             width     |-> IF d[i] = K_vio_out_q THEN 4 ELSE 1,
             radix     |-> IF d[i] = K_vio_in_en THEN <<"HEX">> ELSE <<>>,
             init      |-> IF d[i] = K_vio_in_en THEN <<"1">> ELSE <<>>]]

\* C28: the signal registry is a cumulative keyed store: a run for a module
\* M leaves exactly one entry for M, the list of records freshly derived
\* from the file of M, and leaves the entry of every other module as it was
C28_RegistryCumulative ==
    [][step' = "json" =>
          LET m == ret'[1].module_name
          IN  /\ EntriesOf(registry', m)
                     = <<[module |-> m, signals |-> FreshRecords(file')]>>
              /\ \A n \in AllRegModules \ {m} :
                     EntriesOf(registry', n) = EntriesOf(registry, n)]_vars

\* after runs for top, for sub and for top again the registry holds the
\* entry of sub of the second run and the entry of top of the third
C28_Witness ==
    /\ step = "json" /\ runs = 3
    /\ ret[1].module_name = "top"
    /\ file = <<K_vio_out_q>>
    /\ registry = <<[module |-> "top", signals |-> FreshRecords(file)],
                    [module |-> "sub",
                     signals |-> FreshRecords(<<K_vio_in_en, K_vio_out_q>>)]>>

----------------------------------------------------------------------------
(* Properties of the declaration of a core                                 *)

\* the text of a number below 10 in a declaration
NumText(n) == DigitChar[n + 1]

\* the lines of the declaration d that hold the text key at position k
LinesWith(d, k, key) == SelectSeq(d, LAMBDA l : At(l, k) = key)

\* the declaration of the ILA core core: one line of the number of probes,
\* which is the number of the signals of the core, and one line of width
\* per signal, in order, with the index and the width of the signal
IlaDeclarationRecord(d, core) ==
    LET n == LinesWith(d, 1, "        CONFIG.C_NUM_OF_PROBES                  {")
        w == LinesWith(d, 3, "_WIDTH {")
    IN  /\ Len(n) = 1
        /\ n[1][2] = NumText(Len(core.signals))
        /\ Len(w) = Len(core.signals)
        /\ \A i \in 1..Len(w) :
               /\ w[i][2] = NumText(core.signals[i].index)
               /\ w[i][4] = NumText(core.signals[i].width)
        /\ \A i, j \in 1..Len(w) : w[i][2] = w[j][2] => i = j

\* the signals that have an initial value
WithInit(signals) == SelectSeq(signals, LAMBDA x : x.init # <<>>)

\* the declaration of the VIO core of the signals signals: the numbers of
\* probes are the numbers of signals of the directions, there is one line
\* of width per signal, in order, with direction, index and width of the
\* signal, and one line of initial value per signal that has one
VioDeclarationRecord(d, signals) ==
    LET n_in  == LinesWith(d, 1, "        CONFIG.C_NUM_PROBE_IN                   {")
        n_out == LinesWith(d, 1, "        CONFIG.C_NUM_PROBE_OUT                  {")
        w     == LinesWith(d, 4, "_WIDTH {")
        v     == LinesWith(d, 4, "_INIT_VAL {0x")
    IN  /\ Len(n_in) = 1 /\ Len(n_out) = 1
        /\ n_in[1][2]
               = NumText(Cardinality({i \in 1..Len(signals) :
                                          signals[i].direction = "in"}))
        /\ n_out[1][2]
               = NumText(Cardinality({i \in 1..Len(signals) :
                                          signals[i].direction = "out"}))
        /\ Len(w) = Len(signals)
        /\ \A i \in 1..Len(w) :
               /\ w[i][2] = (IF signals[i].direction = "in"
                             THEN "IN" ELSE "OUT")
               /\ w[i][3] = NumText(signals[i].index)
               /\ w[i][5] = NumText(signals[i].width)
        /\ \A i, j \in 1..Len(w) :
               (w[i][2] = w[j][2] /\ w[i][3] = w[j][3]) => i = j
        /\ Len(v) = Len(WithInit(signals))
        /\ \A i \in 1..Len(v) :
               /\ v[i][2] = (IF WithInit(signals)[i].direction = "in"
                             THEN "IN" ELSE "OUT")
               /\ v[i][3] = NumText(WithInit(signals)[i].index)
               /\ <<v[i][5]>> = WithInit(signals)[i].init

\* C29: in the declaration of a core the count field is the number of the
\* signals of the core (ILA: C_NUM_OF_PROBES; VIO: C_NUM_PROBE_IN and
\* C_NUM_PROBE_OUT per direction), there is exactly one width entry per
\* signal, keyed by the index of the signal, and a VIO signal has a line of
\* initial value if and only if it has an initial value
C29_DeclarationRecords ==
    /\ step = "ila_decl" =>
           /\ IlaDeclarationRecord(xips, ret[1])
           /\ Len(ret[1].signals)
                  = Len(DeclsOfGroup(IlaDecls(file), ret[1].name[1]))
    /\ step = "vio_decl" =>
           /\ VioDeclarationRecord(xips, ret)
           /\ Len(ret) = Len(VioDecls(file))

\* the declaration of the VIO core of in_en (init 1), out_q (no init),
\* out_r (init 0): one probe in, two probes out, three widths, the initial
\* values of en and r
C29_Witness ==
    /\ step = "vio_decl"
    /\ file = <<K_vio_in_en, K_vio_out_q, K_vio_out_r>>
    /\ SubSeq(xips, 8, 14)
           = << <<"        CONFIG.C_PROBE_", "IN", "0", "_WIDTH {", "1",
                  "} \\">>,
                <<"        CONFIG.C_PROBE_", "IN", "0", "_INIT_VAL {0x", "1",
                  "} \\">>,
                <<"        CONFIG.C_PROBE_", "OUT", "0", "_WIDTH {", "4",
                  "} \\">>,
                <<"        CONFIG.C_PROBE_", "OUT", "1", "_WIDTH {", "1",
                  "} \\">>,
                <<"        CONFIG.C_PROBE_", "OUT", "1", "_INIT_VAL {0x", "0",
                  "} \\">>,
                <<"        CONFIG.C_NUM_PROBE_IN                   {", "1",
                  "}         \\">>,
                <<"        CONFIG.C_NUM_PROBE_OUT                  {", "2",
                  "}         \\">> >>

\* the declaration of the ILA core a of a_x, b_y, a_z: two probes, the
\* widths 1 and 1 of the probes 0 and 1
IlaDeclarationOfTwoSignals ==
    /\ step = "ila_decl"
    /\ file = <<K_ila_ax, K_ila_by, K_ila_az>>
    /\ ret[1].name = <<"a">>
    /\ SubSeq(xips, 7, 11)
           = << <<"        CONFIG.C_PROBE", "0", "_WIDTH {", "1", "} \\">>,
                <<"        CONFIG.C_PROBE", "0", "_TYPE {", "2", "} \\">>,
                <<"        CONFIG.C_PROBE", "1", "_WIDTH {", "1", "} \\">>,
                <<"        CONFIG.C_PROBE", "1", "_TYPE {", "2", "} \\">>,
                <<"        CONFIG.C_NUM_OF_PROBES                  {", "2",
                  "} \\">> >>

----------------------------------------------------------------------------
(* HdlPort.to_member_signal_sv, HdlModuleInterface.generate_interface_class_sv *)

\* the words of the port names of the alphabet that hold the text clk, and
\* those that hold the text rst
ClkWords == {"clk", "aclk"}
RstWords == {"rst"}

\* re.match(r'.*clk.*', x.name), re.match(r'.*rst.*', x.name)
re_match_clk(x) == \E i \in 1..Len(x.name) : x.name[i] \in ClkWords
re_match_rst(x) == \E i \in 1..Len(x.name) : x.name[i] \in RstWords

\* HdlPort.to_member_signal_sv
to_member_signal_sv(self) ==
    <<"logic">>
    \o (IF self.dimensions.packed # <<>>
        THEN <<" ">> \o flatten(self.dimensions.packed) ELSE <<>>)
    \o <<" ">> \o self.name
    \o (IF self.dimensions.unpacked # <<>>
        THEN <<" ">> \o flatten(self.dimensions.unpacked) ELSE <<>>)
    \o <<";">>

\* filter_fun(x) for the arguments include_rst and clk_to_ports
filter_fun(x, include_rst, clk_to_ports) ==
    IF clk_to_ports /\ include_rst THEN ~re_match_clk(x)
    ELSE IF ~clk_to_ports /\ include_rst THEN x.name # <<>>
    ELSE IF clk_to_ports /\ ~include_rst
         THEN ~re_match_clk(x) /\ ~re_match_rst(x)
    ELSE ~re_match_rst(x)

\* the declaration of the interface: with clk_to_ports the parameter list
\* of the clocks, the ',' of its last line removed
ifc_declaration(self_ports, clk_to_ports) ==
    LET l_clk == SelectSeq(self_ports, re_match_clk)
        l_lines == << <<"interface", " ", "ifc_" \o name, " ", "(">> >>
                   \o [i \in 1..Len(l_clk) |->
                          <<"        ", "input", " ">> \o l_clk[i].name
                          \o <<",">>]
    IN  IF clk_to_ports
        THEN [i \in 1..Len(l_lines) |->
                 IF i = Len(l_lines) THEN remove_commas(l_lines[i])
                 ELSE l_lines[i]]
             \o << <<")", ";">> >>
        ELSE << <<"interface", " ", "ifc_" \o name, ";">> >>

\* the member signals of the interface
ifc_members(self_ports, include_rst, clk_to_ports) ==
    LET l == SelectSeq(self_ports,
                       LAMBDA x : filter_fun(x, include_rst, clk_to_ports))
    IN  [i \in 1..Len(l) |-> <<"    ">> \o to_member_signal_sv(l[i])]

\* HdlModuleInterface.generate_interface_class_sv: the lines written to
\* file_out
generate_interface_class_sv(self_ports, include_rst, clk_to_ports) ==
    with_newlines(
        ifc_declaration(self_ports, clk_to_ports)
        \o << <<>> >>
        \o ifc_members(self_ports, include_rst, clk_to_ports)
        \o << <<>>, <<"endinterface">> >>)

----------------------------------------------------------------------------
(* Interfaces given to generate_interface_class_sv: up to MaxPorts ports,  *)
(* as HdlPort.from_sv returns them, of names that hold clk, rst, both or   *)
(* none, for every value of the two arguments.                             *)

MaxPorts == 3

IfcPortLines ==
    {<<"input", " ", "logic", " ", "clk", ",", "\n">>,
     <<"input", " ", "logic", " ", "aclk", ",", "\n">>,
     <<"input", " ", "logic", " ", "rst", "_", "n", ",", "\n">>,
     <<"input", " ", "logic", " ", "rst", "_", "clk", ",", "\n">>,
     <<"input", " ", "logic", " ", "a", ",", "\n">>,
     <<"output", " ", "logic", " ">> \o Dim70 \o <<" ", "data", ",", "\n">>,
     <<"output", " ", "logic", " ">> \o Dim70 \o <<" ", "mem", " ">>
         \o Dim31 \o <<"\n">>}

IfcPorts == {HdlPort_from_sv(l)[1] : l \in IfcPortLines}

InitIfc ==
    /\ ports \in UNION {[1..n -> IfcPorts] : n \in 0..MaxPorts}
    /\ file = <<>>
    /\ orig = file
    /\ prev = file
    /\ runs = 0
    /\ raised = FALSE
    /\ step = "init"
    /\ no_create = FALSE
    /\ registry = <<>>
    /\ xips = <<>>
    /\ ret = <<>>

\* the step of a call with the arguments include_rst and clk_to_ports
ifc_step(include_rst, clk_to_ports) ==
    IF clk_to_ports
    THEN (IF include_rst THEN "ifc_rst" ELSE "ifc")
    ELSE (IF include_rst THEN "ifc_members_rst" ELSE "ifc_members")

\* generate_interface_class_sv(include_rst, clk_to_ports, file_out); file
\* is the content of file_out
GenerateInterfaceClassSv ==
    /\ step = "init"
    /\ \E include_rst \in BOOLEAN, clk_to_ports \in BOOLEAN :
           /\ file' = generate_interface_class_sv(ports, include_rst,
                                                  clk_to_ports)
           /\ step' = ifc_step(include_rst, clk_to_ports)
    /\ runs' = runs + 1
    /\ UNCHANGED <<orig, prev, raised, ports, no_create, registry, xips, ret>>

NextIfc == GenerateInterfaceClassSv

SpecIfc == InitIfc /\ [][NextIfc]_vars

----------------------------------------------------------------------------
(* Properties of the interface wrapper                                     *)

\* a port is clock-named if its name holds clk, reset-named if it holds rst
ClockNamed(p) == \E i \in 1..Len(p.name) : p.name[i] \in {"clk", "aclk"}
ResetNamed(p) == \E i \in 1..Len(p.name) : p.name[i] = "rst"

NamesOf(ps) == [i \in 1..Len(ps) |-> ps[i].name]

\* the names of the parameter list of the interface f, in order: the lines
\* 'input <name>' between 'interface ifc_<name> (' and ');'
ParameterNames(f) ==
    LET l == SelectSeq(f, LAMBDA x : At(x, 2) = "input")
    IN  [i \in 1..Len(l) |->
            SelectSeq(SubSeq(l[i], 4, Len(l[i])),
                      LAMBDA t : t \notin {",", "\n"})]

\* the names of the members of the interface f, in order: the lines
\* 'logic [dimensions] <name> [dimensions];'
MemberNames(f) ==
    LET l == SelectSeq(f, LAMBDA x : At(x, 2) = "logic")
    IN  [i \in 1..Len(l) |->
            SelectSeq(SubSeq(l[i], 3, Len(l[i])),
                      LAMBDA t : IsWord(t) /\ ~IsDigits(t))]

\* C30: with the default arguments (clk_to_ports true, include_rst false)
\* the interface wrapper partitions the ports: the parameter list holds the
\* clock-named ports, each once and none as a member, every reset-named
\* port is left out of the interface, and the members are all other ports,
\* each once, in the order of the interface; no port is both parameter and
\* member
C30_InterfacePartition ==
    step = "ifc" =>
        /\ ParameterNames(file) = NamesOf(SelectSeq(ports, ClockNamed))
        /\ MemberNames(file)
               = NamesOf(SelectSeq(ports,
                             LAMBDA p : ~ClockNamed(p) /\ ~ResetNamed(p)))
        /\ \A i \in 1..Len(ports) :
               ResetNamed(ports[i]) =>
                   /\ ports[i].name \notin Range(ParameterNames(file))
                   /\ ports[i].name \notin Range(MemberNames(file))
        /\ Range(ParameterNames(file)) \cap Range(MemberNames(file)) = {}

\* what the wrapper does with the default arguments: the test for clk comes
\* first; a port is a parameter iff its name holds clk, a member iff it
\* holds neither clk nor rst, and left out iff it holds rst and not clk
InterfacePartitionClockFirst ==
    step = "ifc" =>
        /\ ParameterNames(file) = NamesOf(SelectSeq(ports, ClockNamed))
        /\ MemberNames(file)
               = NamesOf(SelectSeq(ports,
                             LAMBDA p : ~ClockNamed(p) /\ ~ResetNamed(p)))
        /\ \A i \in 1..Len(ports) :
               (ResetNamed(ports[i]) /\ ~ClockNamed(ports[i])) =>
                   /\ ports[i].name \notin Range(ParameterNames(file))
                   /\ ports[i].name \notin Range(MemberNames(file))
        /\ Range(ParameterNames(file)) \cap Range(MemberNames(file)) = {}

\* the wrapper of the ports clk, rst_n, data: clk is the parameter, data
\* the member, rst_n is left out
InterfaceOfClkRstData ==
    /\ step = "ifc"
    /\ NamesOf(ports) = << <<"clk">>, <<"rst", "_", "n">>, <<"data">> >>
    /\ file = << <<"interface", " ", "ifc_" \o name, " ", "(", "\n">>,
                 <<"        ", "input", " ", "clk", "\n">>,
                 <<")", ";", "\n">>,
                 <<"\n">>,
                 <<"    ", "logic", " ", "[", "7", ":", "0", "]", " ",
                   "data", ";", "\n">>,
                 <<"\n">>,
                 <<"endinterface", "\n">> >>

\* the reset rst_clk is a parameter of the interface
ResetOfClockIsParameter ==
    /\ step = "ifc"
    /\ NamesOf(ports) = << <<"rst", "_", "clk">>, <<"a">> >>
    /\ ParameterNames(file) = << <<"rst", "_", "clk">> >>
    /\ MemberNames(file) = << <<"a">> >>

----------------------------------------------------------------------------
(* Target files of update_instantiation with a parametrized instantiation: *)
(* code or nothing, '<module> #(', up to MaxParamLines lines of the        *)
(* parameter list, ') inst_<module> (', up to MaxParamLines connections,   *)
(* ');', and 'endmodule' or nothing.                                       *)

MaxParamLines == 2

L_param_width == <<"  ", ".", "WIDTH", " ", "(", "8", ")", ",", "\n">>

ParamRegions ==
    UNION {[1..n -> {L_param_width, L_conn_a, L_code}] :
               n \in 0..MaxParamLines}

ParamConns ==
    UNION {[1..n -> {L_conn_a, L_conn_a_x, L_conn_b}] :
               n \in 0..MaxParamLines}

ParamFiles ==
    {pre \o <<L_param>> \o pl \o <<L_param_end>> \o cl \o <<L_end>> \o post :
         pre \in {<<>>, <<L_code>>}, pl \in ParamRegions, cl \in ParamConns,
         post \in {<<>>, <<L_endmodule>>}}

InitParam ==
    /\ file \in ParamFiles
    /\ orig = file
    /\ prev = file
    /\ runs = 0
    /\ raised = FALSE
    /\ step = "init"
    /\ ports \in Interfaces
    /\ no_create \in BOOLEAN
    /\ registry = <<>>
    /\ xips = <<>>
    /\ ret = <<>>

SpecParam == InitParam /\ [][NextInst]_vars

----------------------------------------------------------------------------
(* Properties of the parameter region                                      *)

\* the positions of the line '<module> #(' and of the line
\* ') inst_<module> (' of the file f
ParamStartAt(f) == CHOOSE i \in 1..Len(f) : IsParamStart(f[i])
ParamEndAt(f) ==
    CHOOSE i \in 1..Len(f) :
        NoWs(f[i]) = <<")", INST_PREFIX \o name, "(">>

\* the file f with the non-parametrized start in the place of its
\* parameter region
NonParametrized(f) ==
    SubSeq(f, 1, ParamStartAt(f) - 1) \o <<L_begin>>
    \o SubSeq(f, ParamEndAt(f) + 1, Len(f))

\* C31: for a parametrized instantiation update_instantiation copies every
\* line from '<module> #(' up to and including ') <instance-name> ('
\* unchanged, reads no connection from a line of the parameter region, and
\* merges the connections that follow as it does for the non-parametrized
\* form
C31_ParameterRegionSkipped ==
    step = "run" =>
        LET s == ParamStartAt(orig)
            k == ParamEndAt(orig)
            r == update_instantiation(NonParametrized(orig), ports,
                                      no_create)
        IN  /\ raised = r.raised
            /\ raised => file = orig
            /\ ~raised =>
                   /\ SubSeq(file, 1, k) = SubSeq(orig, 1, k)
                   /\ SubSeq(file, k + 1, Len(file))
                          = SubSeq(r.out, s + 1, Len(r.out))

\* the line '.a (sig1),' of the parameter region was copied, and the port a
\* of the instantiation is not connected to sig1
C31_Witness ==
    /\ step = "run"
    /\ ports = <<"a", "c">>
    /\ orig = <<L_param, L_conn_a, L_param_width, L_param_end, L_conn_b,
                L_end>>
    /\ file = <<L_param, L_conn_a, L_param_width, L_param_end,
                conn_line("a", <<>>), conn_line("c", <<>>)>>
              \o << remove_commas(conn_line("b", <<"sig2">>)), L_end >>

----------------------------------------------------------------------------
(* Declarations given to from_sv whose last port may share its line with   *)
(* the closing ');'.                                                       *)

V_port_close == <<"input", " ", "logic", " ", "a", ")", ";", "\n">>

SvEndLines == {V_module, V_module_param, V_param_end, V_end, V_port_a,
               V_port_close}

InitDeclEnd ==
    /\ file \in UNION {[1..n -> SvEndLines] : n \in 0..MaxDeclLines}
    /\ orig = file
    /\ prev = file
    /\ runs = 0
    /\ raised = FALSE
    /\ step = "init"
    /\ ports = <<>>
    /\ no_create = FALSE
    /\ registry = <<>>
    /\ xips = <<>>
    /\ ret = <<>>

SpecDeclEnd == InitDeclEnd /\ [][NextDecl]_vars

\* C32: from_sv returns an interface if and only if the first module
\* declaration of the input enters its port list and a line that starts
\* with the terminal ');' follows; otherwise it returns None: without a
\* declaration, with a parameter list that never ends, and with a port
\* list that has ports but no terminal line, whose ports are discarded
C32_ReturnsOnlyAtTerminalLine ==
    step = "run" =>
        /\ ret # <<>> <=> (PortListLine(file) # 0 /\ TerminalLine(file) # 0)
        /\ DeclLine(file) = 0 => ret = <<>>
        /\ (DeclLine(file) # 0 /\ PortListLine(file) = 0) => ret = <<>>
        /\ (/\ PortListLine(file) # 0
            /\ \A i \in (PortListLine(file) + 1)..Len(file) :
                   ~StartsWith(file[i], ")", ";"))
               => ret = <<>>

\* from_sv returned None for a module whose closing ');' stands on the line
\* of its last port
C32_Witness ==
    /\ step = "run"
    /\ file = <<V_module, V_port_a, V_port_close>>
    /\ AcceptedPorts(file, 2, 3) # <<>>
    /\ ret = <<>>

\* from_sv returned the interface of the module when the terminal line
\* follows
TerminalLineReturns ==
    /\ step = "run"
    /\ file = <<V_module, V_port_a, V_port_close, V_end>>
    /\ ret # <<>> /\ Len(ret[1].ports) = 2

----------------------------------------------------------------------------
(* The two loops over the lines, one iteration at a time: ret holds the    *)
(* local variables of the loop, runs the number of lines read.             *)

MaxScanLines == 3

InitScan ==
    /\ \/ /\ step = "inst"
          /\ file \in UNION {[1..n -> InstLines] : n \in 0..MaxScanLines}
          /\ ports \in {<<>>, <<"a">>}
          /\ no_create \in BOOLEAN
          /\ ret = <<scan_init(ports)>>
       \/ /\ step = "decl"
          /\ file \in UNION {[1..n -> SvLines] : n \in 0..MaxScanLines}
          /\ ports = <<>>
          /\ no_create = FALSE
          /\ ret = <<from_sv_init>>
    /\ orig = file
    /\ prev = file
    /\ runs = 0
    /\ raised = FALSE
    /\ registry = <<>>
    /\ xips = <<>>

\* one iteration of 'for line in l_lines' of update_instantiation
ScanInstLine ==
    /\ step = "inst"
    /\ runs < Len(file)
    /\ ~ret[1].raised
    /\ ret' = <<scan_line(ret[1], file[runs + 1], no_create)>>
    /\ runs' = runs + 1
    /\ UNCHANGED <<file, orig, prev, raised, step, ports, no_create, registry,
                   xips>>

\* one iteration of 'for line in l_lines' of from_sv
ScanDeclLine ==
    /\ step = "decl"
    /\ runs < Len(file)
    /\ ~ret[1].returned
    /\ ret' = <<from_sv_line(ret[1], file[runs + 1])>>
    /\ runs' = runs + 1
    /\ UNCHANGED <<file, orig, prev, raised, step, ports, no_create, registry,
                   xips>>

NextScan == ScanInstLine \/ ScanDeclLine

SpecScan == InitScan /\ [][NextScan]_vars

\* the state of a line state machine: the two flags of the loop
\* (in_port_list and in_param_list, or in_ports_decl and in_param_decl)
InPortList(st) ==
    IF step = "inst" THEN st.in_port_list ELSE st.in_ports_decl
InParamList(st) ==
    IF step = "inst" THEN st.in_param_list ELSE st.in_param_decl

ScanState(st) ==
    IF InPortList(st) /\ InParamList(st) THEN "both"
    ELSE IF InPortList(st) THEN "port"
    ELSE IF InParamList(st) THEN "param"
    ELSE "idle"

FlagsExclusive == ScanState(ret[1]) # "both"

\* the transitions of one iteration: a state stays, or idle -> param list,
\* idle -> port list, param list -> port list, port list -> idle (done)
FlagTransition ==
    \/ ScanState(ret'[1]) = ScanState(ret[1])
    \/ <<ScanState(ret[1]), ScanState(ret'[1])>>
           \in {<<"idle", "param">>, <<"idle", "port">>,
                <<"param", "port">>, <<"port", "idle">>}

\* C33: in both line state machines (from_sv and update_instantiation) the
\* two scanning flags are never both true, and an iteration changes the
\* state only from idle to the parameter list or the port list, from the
\* parameter list to the port list, and from the port list to idle or done
C33_FlagsExclusive ==
    []FlagsExclusive /\ [][FlagTransition]_vars

\* update_instantiation went from the parameter list to the port list and
\* back to idle, with one instantiation written
C33_Witness ==
    /\ step = "inst" /\ runs = 3
    /\ file = <<L_param, L_param_end, L_end>>
    /\ ScanState(ret[1]) = "idle" /\ ret[1].inst_created

\* from_sv went from the parameter list to the port list and returned
DeclScanReturned ==
    /\ step = "decl" /\ runs = 3
    /\ file = <<V_module_param, V_param_end, V_end>>
    /\ ScanState(ret[1]) = "idle" /\ ret[1].returned

----------------------------------------------------------------------------
(* One instantiation per run                                               *)

\* the lines of f that start the port list of an instantiation
InstStarts(f) == {i \in 1..Len(f) : IsInstStartAny(f[i])}

Endmodules(f) == {i \in 1..Len(f) : IsEndmodule(f[i])}

OneInstantiationPerEndmodule ==
    (runs = 1 /\ ~raised /\ ~no_create /\ NoInstLines(orig)) =>
        Cardinality(InstStarts(file)) = Cardinality(Endmodules(orig))

\* a file of two 'endmodule' lines got two instantiations
TwoEndmodulesTwoInstantiations ==
    /\ runs = 1 /\ ~raised /\ ports = <<"a">>
    /\ orig = <<L_endmodule, L_endmodule>>
    /\ Cardinality(InstStarts(file)) = 2

----------------------------------------------------------------------------
(* Interfaces without ports                                                *)

\* the run needs the block of connection lines: the file holds an
\* instantiation of the module, or a new one is created at 'endmodule'
NeedsBlock(f, nc) ==
    \/ DocInsts(f, StdName) # {}
    \/ (NoInstLines(f) /\ HasEndmodule(f) /\ ~nc)

\* line i of f connects a port to a signal
ConnectsSignal(f, i) ==
    re_module_inst_sv_port_conn(f[i]).mo
        /\ re_module_inst_sv_port_conn(f[i]).conn # <<>>

\* C35: for an interface without ports, update_instantiation on a file that
\* needs the block of connection lines raises (instantiate_with_conn fails
\* on the empty list) before it writes: the file is unchanged
C35_ZeroPortsRaise ==
    (runs = 1 /\ ports = <<>> /\ NeedsBlock(orig, no_create)) =>
        (raised /\ file = orig)

\* the same, for the files without a connection of a port to a signal
ZeroPortsRaiseWithoutConnections ==
    (runs = 1 /\ ports = <<>> /\ NeedsBlock(orig, no_create)
        /\ \A i \in 1..Len(orig) : ~ConnectsSignal(orig, i)) =>
        (raised /\ file = orig)

\* a run that raises leaves the file as it was
RaiseLeavesFile == (runs >= 1 /\ raised) => file = prev

\* the run raised at the empty instantiation of an interface without ports
ZeroPortsRaised ==
    /\ runs = 1 /\ ports = <<>> /\ raised
    /\ orig = <<L_begin, L_end>> /\ file = orig

\* the run did not raise: the connection of port b stands in the dict
ZeroPortsNotRaised ==
    /\ runs = 1 /\ ports = <<>> /\ ~raised
    /\ orig = <<L_begin, L_conn_b, L_end>>
    /\ file = <<L_begin, <<"    ", ".", "b", " ", "(", "sig2", ")", "\n">>,
                L_end>>

----------------------------------------------------------------------------
(* Errors of process_module                                                *)

\* C36: a call of process_module that raises has modified none of its three
\* outputs: the module file, the signal registry and the IP declaration
\* file are as before the call
C36_RaiseLeavesOutputs ==
    [][(runs' = runs + 1 /\ raised') =>
           (file' = file /\ registry' = registry /\ xips' = xips)]_vars

\* a call that raises has not written the IP declaration file
RaiseLeavesDeclarations ==
    [][(runs' = runs + 1 /\ raised') => xips' = xips]_vars

\* a module with an ILA signal only: the module file got its generated
\* block, then the call raised
ModuleWrittenThenRaised ==
    /\ runs = 1 /\ raised
    /\ orig = <<D_ila_a, D_endmodule>>
    /\ file # orig /\ D_start \in Range(file)
    /\ registry = <<>> /\ xips = <<>>

\* a module with a VIO signal only: the registry got the entry of the
\* module, then the call raised
RegistryWrittenThenRaised ==
    /\ runs = 1 /\ raised
    /\ orig = <<D_vio_in, D_endmodule_eof>>
    /\ registry # <<>> /\ registry[Len(registry)].module = module_name
    /\ xips = <<>>

----------------------------------------------------------------------------
(* The sign of the width                                                   *)

\* C37: every signal that IlaSignal.from_str or VioSignal.from_str returns
\* has a width of at least 1, for every literal dimension [hi:lo], the
\* ascending ones (hi < lo, as [0:7]) included
C37_WidthPositive ==
    (OwnParser /\ ret # <<>>) => ret[1].width >= 1

\* the width is at least 1 for the dimensions with hi >= lo and without
\* dimension
WidthPositiveDescending ==
    (OwnParser /\ ret # <<>>) =>
        LET t == NoWs(file[1])
        IN  (HasLiteralDim(t) => DigitValue(t[3]) >= DigitValue(t[5]))
                => ret[1].width >= 1

\* the signal of a declaration of dimension [0:7] has the width -6
AscendingRangeNegativeWidth ==
    /\ OwnParser /\ ret # <<>>
    /\ SubSeq(NoWs(file[1]), 2, 6) = <<"[", "0", ":", "7", "]">>
    /\ ret[1].width = 0 - 6

----------------------------------------------------------------------------
(* The artifacts of one core: what one run of process_module generates     *)
(* from a core found in the module, the instantiation (file), the          *)
(* declaration (xips) and, for the VIO core, the registry.                 *)

\* core.generate_ip_instantiation and core.generate_ip_declaration for one
\* of the ILA cores found; ret holds that core
IlaArtifacts ==
    /\ step = "ila"
    /\ \E c \in 1..Len(ret) :
           /\ file' = XilinxIlaCore_generate_ip_instantiation(ret[c])
           /\ xips' = XilinxIlaCore_generate_ip_declaration(ret[c])
           /\ ret' = <<ret[c]>>
    /\ step' = "ila_art"
    /\ UNCHANGED <<orig, prev, runs, raised, ports, no_create, registry>>

\* generate_ip_instantiation, write_json_sig_list and
\* generate_ip_declaration of the VIO core; ret holds its signals
VioArtifacts ==
    /\ step = "vio"
    /\ ret # <<>>
    /\ file' = XilinxVioCore_generate_ip_instantiation(ret)
    /\ registry' = write_json_sig_list(registry, ret)
    /\ xips' = XilinxVioCore_generate_ip_declaration(ret)
    /\ step' = "vio_art"
    /\ UNCHANGED <<orig, prev, runs, raised, ports, no_create, ret>>

NextArt ==
    \/ IlaFromModule
    \/ VioFromModule
    \/ IlaArtifacts
    \/ VioArtifacts

SpecArt == InitCore /\ [][NextArt]_vars

\* the lines of the instantiation f that connect a probe
ProbeLines(f) == SelectSeq(f, LAMBDA l : At(l, 2) = "." /\ At(l, 3) # "clk")

\* the line l connects the port port to the signal of the text sig
ConnectsProbe(l, port, sig) ==
    /\ At(l, 2) = "." /\ At(l, 3) = port
    /\ SubSeq(remove_commas(l), 5, Len(remove_commas(l)))
           = <<"(">> \o sig \o <<")">>

\* the numbers a probe may have
ProbeNumbers == 0..MaxCoreLines

\* the instantiation, the declaration and the registry of the VIO core
\* give signal k the number n
VioNumbered(k, n) ==
    LET s == ret[k]
        w == LinesWith(xips, 4, "_WIDTH {")
        r == EntriesOf(registry, module_name)[1].signals
    IN  /\ \E i \in 1..Len(file) :
               ConnectsProbe(file[i],
                             "probe_" \o s.direction \o NumText(n),
                             <<"vio_ctrl_", s.direction, "_">> \o s.name)
        /\ Len(w) = Len(ret)
        /\ w[k][2] = (IF s.direction = "in" THEN "IN" ELSE "OUT")
        /\ w[k][3] = NumText(n)
        /\ Len(r) = Len(ret)
        /\ r[k].name = s.name /\ r[k].direction = s.direction
        /\ r[k].index = n

\* the instantiation and the declaration of the ILA core give signal k the
\* number n
IlaNumbered(k, n) ==
    LET s == ret[1].signals[k]
        w == LinesWith(xips, 3, "_WIDTH {")
    IN  /\ \E i \in 1..Len(file) :
               ConnectsProbe(file[i], "probe" \o NumText(n),
                             <<"ila_ctrl_">> \o s.ila_name \o <<"_">>
                                 \o s.name)
        /\ Len(w) = Len(ret[1].signals)
        /\ w[k][2] = NumText(n)

\* no two probe lines of the instantiation connect the same port
ProbesDistinct ==
    \A i, j \in 1..Len(ProbeLines(file)) :
        ProbeLines(file)[i][3] = ProbeLines(file)[j][3] => i = j

\* C38: the artifacts of a core agree on the number of every signal: the
\* probe of the instantiation that connects the signal ('.probe<n>' of an
\* ILA, '.probe_in<n>' or '.probe_out<n>' of the VIO), the index of its
\* CONFIG line of the declaration and, for the VIO, the index of its
\* registry record are one number n, and every probe connects one signal,
\* in whatever order the module declares the signals
C38_ProbeNumbersAgree ==
    /\ step = "vio_art" =>
           /\ \A k \in 1..Len(ret) : \E n \in ProbeNumbers : VioNumbered(k, n)
           /\ Len(ProbeLines(file)) = Len(ret)
           /\ ProbesDistinct
    /\ step = "ila_art" =>
           /\ \A k \in 1..Len(ret[1].signals) :
                  \E n \in ProbeNumbers : IlaNumbered(k, n)
           /\ Len(ProbeLines(file)) = Len(ret[1].signals)
           /\ ProbesDistinct

\* a module that declares an output between two inputs: the second input
\* has the number 1 in the three artifacts
C38_Witness ==
    /\ step = "vio_art"
    /\ orig = <<K_vio_in_en, K_vio_out_q, K_vio_in_d>>
    /\ VioNumbered(1, 0) /\ VioNumbered(2, 0) /\ VioNumbered(3, 1)
    /\ file[3][3] = "probe_in0" /\ file[4][3] = "probe_in1"
    /\ file[5][3] = "probe_out0"

\* the two signals of the ILA core a, declared around a signal of core b
IlaProbesOfInterleavedCores ==
    /\ step = "ila_art"
    /\ orig = <<K_ila_ax, K_ila_by, K_ila_az>>
    /\ ret[1].name = <<"a">>
    /\ IlaNumbered(1, 0) /\ IlaNumbered(2, 1)

----------------------------------------------------------------------------
(* HdlCodeManager._command_project: the project config file.  A Python     *)
(* value is <<>> for None and <<s>> for the string s; the file is the      *)
(* sequence of the fields json.dump writes, each with the JSON text of its *)
(* value.                                                                  *)

\* json.dumps of None, of a string
json_dumps(v) == IF v = <<>> THEN "null" ELSE "\"" \o v[1] \o "\""

\* the dict self.project_config of a xilinx project
project_config(subcommand, part, xilinx_board_specifier, s_top_module) ==
    << [key |-> "project_type",       value |-> json_dumps(<<subcommand>>)],
       [key |-> "part",               value |-> json_dumps(part)],
       [key |-> "board_part",
        value |-> json_dumps(xilinx_board_specifier)],
       [key |-> "top",                value |-> json_dumps(s_top_module)],
       [key |-> "sim_top",            value |-> json_dumps(s_top_module)],
       [key |-> "simulator",          value |-> json_dumps(<<"xsim">>)],
       [key |-> "hw_version",         value |-> json_dumps(<<"latest">>)],
       [key |-> "sim_args_modelsim",  value |-> json_dumps(<<"">>)],
       [key |-> "sim_args_questa",    value |-> json_dumps(<<"">>)],
       [key |-> "sim_args_verilator", value |-> json_dumps(<<"">>)],
       [key |-> "sim_args_xsim",      value |-> json_dumps(<<"">>)],
       [key |-> "sim_verbosity",      value |-> "2"] >>

\* 'if top is not None: s_top_module = "" else: s_top_module = top'
s_top_module_of(top) == IF top # <<>> THEN <<"">> ELSE top

\* 'if part is not None: part = part else: part = ""'
part_of(part) == IF part # <<>> THEN part ELSE <<"">>

\* board_specs.xilinx_board_specifier
board_specifier_of(board_part) ==
    IF board_part # <<>> THEN board_part ELSE <<"">>

\* _command_project(subcommand, part=, board_part=, top=) on the project
\* config file f.  found: get_board_specs_obj finds the constraints file of
\* the board (it raises FileNotFoundError otherwise); allowed: the answer
\* of _check_target_edit_allowed for the project config file
command_project(f, a, found, allowed) ==
    IF a.subcommand # "xilinx"
    THEN [step |-> "no_project", raised |-> FALSE, file |-> f]
    ELSE IF a.board_part # <<>> /\ ~found
    THEN [step |-> "project_raised", raised |-> TRUE, file |-> f]
    ELSE IF ~allowed
    THEN [step |-> "project_kept", raised |-> FALSE, file |-> f]
    ELSE [step |-> "project_written", raised |-> FALSE,
          file |-> project_config(a.subcommand, part_of(a.part),
                                  board_specifier_of(a.board_part),
                                  s_top_module_of(a.top))]

PrjSubcommands == {"xilinx", "", "lattice"}
PrjParts       == {<<>>, <<"xc7a35t">>}
PrjBoardParts  == {<<>>, <<"arty">>}
PrjTops        == {<<>>, <<"top">>, <<"cpu">>, <<"tb_top">>}

\* ret holds the arguments of the call, file the project config file: none,
\* or the one of an earlier project
InitPrj ==
    /\ ret \in {<<[subcommand |-> s, part |-> p, board_part |-> b,
                   top |-> t]>> :
                   s \in PrjSubcommands, p \in PrjParts, b \in PrjBoardParts,
                   t \in PrjTops}
    /\ file \in {<<>>, project_config("xilinx", <<"">>, <<"">>, <<"old">>)}
    /\ orig = file
    /\ prev = file
    /\ runs = 0
    /\ raised = FALSE
    /\ step = "init"
    /\ ports = <<>>
    /\ no_create = FALSE
    /\ registry = <<>>
    /\ xips = <<>>

CommandProject ==
    /\ step = "init"
    /\ \E found \in BOOLEAN, allowed \in BOOLEAN :
           LET r == command_project(file, ret[1], found, allowed)
           IN  /\ file' = r.file
               /\ raised' = r.raised
               /\ step' = r.step
    /\ prev' = file
    /\ runs' = runs + 1
    /\ UNCHANGED <<orig, ports, no_create, registry, xips, ret>>

NextPrj == CommandProject

SpecPrj == InitPrj /\ [][NextPrj]_vars

\* the JSON text of the field key of the project config f
FieldText(f, key) == f[CHOOSE i \in 1..Len(f) : f[i].key = key].value

\* C39: the project config written for a xilinx project holds the top
\* module the caller gave: the fields top and sim_top are that name
C39_TopStored ==
    (step = "project_written" /\ ret[1].top # <<>>) =>
        /\ FieldText(file, "top") = "\"" \o ret[1].top[1] \o "\""
        /\ FieldText(file, "sim_top") = "\"" \o ret[1].top[1] \o "\""

\* what is written: the empty string when a top module is given, null when
\* none is given
TopNeverStored ==
    step = "project_written" =>
        /\ FieldText(file, "top")
               = (IF ret[1].top # <<>> THEN "\"\"" ELSE "null")
        /\ FieldText(file, "sim_top") = FieldText(file, "top")

\* the other arguments are stored: part and board_part as given, the empty
\* string when not given
PartStored ==
    step = "project_written" =>
        /\ FieldText(file, "project_type") = "\"xilinx\""
        /\ FieldText(file, "part")
               = (IF ret[1].part # <<>>
                  THEN "\"" \o ret[1].part[1] \o "\"" ELSE "\"\"")
        /\ FieldText(file, "board_part")
               = (IF ret[1].board_part # <<>>
                  THEN "\"" \o ret[1].board_part[1] \o "\"" ELSE "\"\"")

\* the project of top module cpu got the top module ""
GivenTopWrittenEmpty ==
    /\ step = "project_written" /\ ret[1].top = <<"cpu">>
    /\ FieldText(file, "top") = "\"\"" /\ FieldText(file, "sim_top") = "\"\""

====
